---- MODULE Spec2Model ----
(***************************************************************************)
(* A model of the sorted-string-table stack of LevelDB: the merging        *)
(* iterator (table/merger.cc), the table builder (table/table_builder.cc), *)
(* the filter block (table/filter_block.cc) and the two-level iterator     *)
(* (table/two_level_iterator.cc).                                          *)
(*                                                                         *)
(* Keys are natural numbers ordered by <, which stands for the injected    *)
(* comparator.  A cursor position is an index into a sorted sequence; 0    *)
(* is "not positioned" (Valid() is false).                                 *)
(***************************************************************************)
EXTENDS Integers, Sequences, FiniteSets, TLC

\* ------------------------------------------------------------------ bounds
\* Largest key of a merging iterator's children.
MaxKey == 3
\* Largest number of children of a merging iterator (at least 2).
MaxChildren == 2
\* The same two bounds for the runs in which child iterators may fail.
ErrMaxKey == 2
ErrMaxChildren == 2
\* The same two bounds for the runs in which children fail in two ways.
StatusMaxKey == 1
StatusMaxChildren == 3
\* Largest key of a table read with unreadable and empty blocks.
SkipMaxKey == 4
\* Largest key of a table whose data iterators are counted, and the number
\* of data iterators after which the two-level iterator is no longer moved.
ResourceMaxKey == 3
MaxObtained == 4
\* Largest key of the iterator BuildTable reads.
MaxBuildKey == 2
\* Largest key added to a table.
MaxTableKey == 3
\* The value sizes an Add may use and the block_size options of a builder.
ValueSizes == {1, 3000}
BlockSizes == {14, 4096}
\* The file calls of the longest operation, Finish: 3 + 2 + 2 + 2 + 1.
kMaxFileCalls == 10
\* Largest number of allocations from one Arena.
MaxAllocs == 4
\* A filter block handed to a reader: the most filter bytes and offset words,
\* and the largest offset word.
MaxFilterBytes == 2
MaxOffsets == 2
MaxWord == 2

\* Direct calls on a filter block builder: block start offsets are the
\* multiples of kStartUnit up to MaxBlockStart of them, and at most
\* MaxPendingKeys keys are added between two filters.
MaxBlockStart == 8
MaxPendingKeys == 2

VARIABLES
  kids,        \* merging iterator: the key sequence behind each child iterator
  bad,         \* merging iterator: per child, the position of an unreadable entry (0: none)
  children_,   \* MergingIterator::children_ : per child its cursor and status
  current_,    \* MergingIterator::current_  : 0 is nullptr, else the child's index
  direction_,  \* MergingIterator::direction_
  scan,        \* history: the operations since the last seek and the entries they visited
  rep,         \* TableBuilder::Rep
  file,        \* the WritableFile: the chunks appended so far, in order
  ret,         \* the Status the last TableBuilder call returned ("void" if none)
  added,       \* history: the (key, value) pairs Add accepted
  failed_assert, \* whether an assert of the table builder has failed
  rejected,    \* history: a TableBuilder call was made while status() was not OK
  tab,         \* the table a two-level iterator reads: its index entries and read faults
  tl,          \* TwoLevelIterator (tl.live: it has been constructed)
  arena,       \* Arena, with the heap it takes its slabs from
  arena_hist,  \* history: the allocations an Arena returned
  probe,       \* a FilterBlockReader and the last KeyMayMatch call on it
  build        \* BuildTable: its inputs, its collaborators' faults and its outcome

mergeVars == <<kids, bad, children_, current_, direction_>>
tableVars == <<rep, file, ret, added, failed_assert, rejected>>
readVars == <<tab, tl>>
arenaVars == <<arena, arena_hist>>
auxVars == <<arena, arena_hist, probe, build>>
vars == <<kids, bad, children_, current_, direction_, scan,
          rep, file, ret, added, failed_assert, rejected, tab, tl,
          arena, arena_hist, probe, build>>

\* ------------------------------------------------------------ sequences
\* The strictly increasing sequence of the elements of a finite set of numbers.
RECURSIVE SortedSeq(_)
SortedSeq(S) ==
  IF S = {} THEN << >>
  ELSE LET m == CHOOSE x \in S : \A y \in S : x <= y
       IN  <<m>> \o SortedSeq(S \ {m})

Range(s) == {s[i] : i \in 1..Len(s)}

\* ------------------------------------------------- a child iterator
\* A child is an Iterator over a sorted sequence keys; a cursor that would
\* land on the unreadable entry b reports Corruption and becomes invalid, and
\* a child that has reported an error stays invalid.  A negative b is an
\* entry at position -b whose read fails with IOError.
Land(keys, b, c, p) ==
  IF c.status # "OK" THEN [pos |-> 0, status |-> c.status]
  ELSE IF p # 0 /\ p = b THEN [pos |-> 0, status |-> "Corruption"]
  ELSE IF p # 0 /\ p = -b THEN [pos |-> 0, status |-> "IOError"]
  ELSE [pos |-> p, status |-> "OK"]

\* The first position whose key is >= t, or 0.
LowerBound(keys, t) ==
  IF \E p \in 1..Len(keys) : keys[p] >= t
  THEN CHOOSE p \in 1..Len(keys) :
         keys[p] >= t /\ \A q \in 1..(p - 1) : keys[q] < t
  ELSE 0

ChildSeekToFirst(keys, b, c) == Land(keys, b, c, IF Len(keys) > 0 THEN 1 ELSE 0)
ChildSeekToLast(keys, b, c) == Land(keys, b, c, Len(keys))
ChildSeek(keys, b, c, t) == Land(keys, b, c, LowerBound(keys, t))
ChildNext(keys, b, c) == Land(keys, b, c, IF c.pos < Len(keys) THEN c.pos + 1 ELSE 0)
ChildPrev(keys, b, c) == Land(keys, b, c, c.pos - 1)
ChildValid(c) == c.pos # 0

\* ------------------------------------------------- MergingIterator
n_ == Len(kids)

\* Valid(): current_ != nullptr
Valid == current_ # 0

\* key(): current_->key()
KeyOf(ch, i) == kids[i][ch[i].pos]

\* status(): the loop over i = 0 .. n_-1, which breaks at the first child
\* whose status is not OK.
RECURSIVE StatusFrom(_, _)
StatusFrom(ch, i) ==
  IF i > Len(ch) THEN "OK"
  ELSE IF ch[i].status # "OK" THEN ch[i].status
  ELSE StatusFrom(ch, i + 1)

\* status() whose loop does not break.
MergeStatusNoBreak ==
  IF n_ = 0 THEN "OK" ELSE children_[n_].status

MergeStatus == StatusFrom(children_, 1)

\* FindSmallest: the loop over i = 0 .. n_-1, here from child i with the
\* smallest found so far.
RECURSIVE FindSmallestFrom(_, _, _)
FindSmallestFrom(ch, i, smallest) ==
  IF i > Len(ch) THEN smallest
  ELSE IF ChildValid(ch[i])
          /\ (smallest = 0 \/ KeyOf(ch, i) < KeyOf(ch, smallest))
       THEN FindSmallestFrom(ch, i + 1, i)
       ELSE FindSmallestFrom(ch, i + 1, smallest)

\* FindSmallest with the comparison's sign slipped (> 0 for < 0).
RECURSIVE FindSmallestSignSlip(_, _, _)
FindSmallestSignSlip(ch, i, smallest) ==
  IF i > Len(ch) THEN smallest
  ELSE IF ChildValid(ch[i])
          /\ (smallest = 0 \/ KeyOf(ch, i) > KeyOf(ch, smallest))
       THEN FindSmallestSignSlip(ch, i + 1, i)
       ELSE FindSmallestSignSlip(ch, i + 1, smallest)

FindSmallestWrong(ch) == FindSmallestSignSlip(ch, 1, 0)

\* FindSmallest whose comparison also replaces on an equal key (<= 0 for < 0).
RECURSIVE FindSmallestOrEqual(_, _, _)
FindSmallestOrEqual(ch, i, smallest) ==
  IF i > Len(ch) THEN smallest
  ELSE IF ChildValid(ch[i])
          /\ (smallest = 0 \/ KeyOf(ch, i) <= KeyOf(ch, smallest))
       THEN FindSmallestOrEqual(ch, i + 1, i)
       ELSE FindSmallestOrEqual(ch, i + 1, smallest)

FindSmallestTiesLast(ch) == FindSmallestOrEqual(ch, 1, 0)

FindSmallest(ch) == FindSmallestFrom(ch, 1, 0)

\* FindLargest: the loop over i = n_-1 .. 0.
RECURSIVE FindLargestFrom(_, _, _)
FindLargestFrom(ch, i, largest) ==
  IF i < 1 THEN largest
  ELSE IF ChildValid(ch[i])
          /\ (largest = 0 \/ KeyOf(ch, i) > KeyOf(ch, largest))
       THEN FindLargestFrom(ch, i - 1, i)
       ELSE FindLargestFrom(ch, i - 1, largest)

\* FindLargest that stops at the first valid child instead of comparing keys.
FindLargestWrong(ch) ==
  IF \E i \in 1..Len(ch) : ChildValid(ch[i])
  THEN CHOOSE i \in 1..Len(ch) :
         ChildValid(ch[i]) /\ \A j \in (i + 1)..Len(ch) : ~ChildValid(ch[j])
  ELSE 0

\* FindLargest that runs the loop of FindSmallest.
FindLargestIsSmallest(ch) == FindSmallestFrom(ch, 1, 0)

FindLargest(ch) == FindLargestFrom(ch, Len(ch), 0)

\* The repositioning loop of Next() without the step past an equal key.
NextRepositionNoStep(ch, cur) ==
  [i \in 1..Len(ch) |->
     IF i = cur THEN ch[i]
     ELSE ChildSeek(kids[i], bad[i], ch[i], KeyOf(ch, cur))]

\* Next(), the loop that runs when direction_ != kForward: every child but
\* current_ seeks to key() and steps once more when it lands on key().
NextReposition(ch, cur) ==
  [i \in 1..Len(ch) |->
     IF i = cur THEN ch[i]
     ELSE LET s == ChildSeek(kids[i], bad[i], ch[i], KeyOf(ch, cur))
          IN  IF ChildValid(s) /\ kids[i][s.pos] = KeyOf(ch, cur)
              THEN ChildNext(kids[i], bad[i], s)
              ELSE s]

\* The repositioning loop of Prev() without the SeekToLast of a child that has
\* no key >= key().
PrevRepositionNoFallback(ch, cur) ==
  [i \in 1..Len(ch) |->
     IF i = cur THEN ch[i]
     ELSE LET s == ChildSeek(kids[i], bad[i], ch[i], KeyOf(ch, cur))
          IN  IF ChildValid(s)
              THEN ChildPrev(kids[i], bad[i], s)
              ELSE s]

\* Prev(), the loop that runs when direction_ != kReverse.
PrevReposition(ch, cur) ==
  [i \in 1..Len(ch) |->
     IF i = cur THEN ch[i]
     ELSE LET s == ChildSeek(kids[i], bad[i], ch[i], KeyOf(ch, cur))
          IN  IF ChildValid(s)
              THEN ChildPrev(kids[i], bad[i], s)
              ELSE ChildSeekToLast(kids[i], bad[i], s)]

\* The entry a cursor stands on: <<child, position>>.
CurEntry(ch, cur) == <<cur, ch[cur].pos>>
EntryKey(e) == kids[e[1]][e[2]]

\* scan.kind: "fwd" after SeekToFirst/Seek and Next calls only, "rev" after
\* SeekToLast and Prev calls only, "revNext" one Next after a "rev" scan,
\* "fwdPrev" one Prev after a "fwd" scan, "mixed" otherwise.  scan.out lists
\* the entries the iterator stood on, scan.target is the Seek target (0 for
\* SeekToFirst and SeekToLast), scan.steps counts the Next/Prev calls.
Started(kind, t, ch, cur) ==
  [kind |-> kind, target |-> t, steps |-> 0,
   out |-> IF cur = 0 THEN << >> ELSE <<CurEntry(ch, cur)>>]

Visited(ch, cur) == IF cur = 0 THEN << >> ELSE <<CurEntry(ch, cur)>>

NoScan == [kind |-> "mixed", target |-> 0, steps |-> 0, out |-> << >>]

MergeSeekToFirst ==
  /\ n_ >= 2
  /\ LET ch  == [i \in 1..n_ |-> ChildSeekToFirst(kids[i], bad[i], children_[i])]
         cur == FindSmallest(ch)
     IN  /\ children_' = ch
         /\ current_' = cur
         /\ direction_' = "kForward"
         /\ scan' = Started("fwd", 0, ch, cur)
  /\ UNCHANGED <<kids, bad>>
  /\ UNCHANGED <<tableVars, readVars, auxVars>>

MergeSeekToLast ==
  /\ n_ >= 2
  /\ LET ch  == [i \in 1..n_ |-> ChildSeekToLast(kids[i], bad[i], children_[i])]
         cur == FindLargest(ch)
     IN  /\ children_' = ch
         /\ current_' = cur
         /\ direction_' = "kReverse"
         /\ scan' = Started("rev", 0, ch, cur)
  /\ UNCHANGED <<kids, bad>>
  /\ UNCHANGED <<tableVars, readVars, auxVars>>

MergeSeek(target) ==
  /\ n_ >= 2
  /\ LET ch  == [i \in 1..n_ |-> ChildSeek(kids[i], bad[i], children_[i], target)]
         cur == FindSmallest(ch)
     IN  /\ children_' = ch
         /\ current_' = cur
         /\ direction_' = "kForward"
         /\ scan' = Started("fwd", target, ch, cur)
  /\ UNCHANGED <<kids, bad>>
  /\ UNCHANGED <<tableVars, readVars, auxVars>>

MergeNext ==
  /\ n_ >= 2
  /\ Valid
  /\ LET ch1 == IF direction_ # "kForward"
                THEN NextReposition(children_, current_) ELSE children_
         ch2 == [ch1 EXCEPT ![current_] =
                   ChildNext(kids[current_], bad[current_], ch1[current_])]
         cur == FindSmallest(ch2)
     IN  /\ children_' = ch2
         /\ current_' = cur
         /\ direction_' = "kForward"
         /\ scan' = IF scan.kind = "fwd"
                    THEN [scan EXCEPT !.steps = @ + 1, !.out = @ \o Visited(ch2, cur)]
                    ELSE IF scan.kind = "rev"
                    THEN [scan EXCEPT !.kind = "revNext", !.steps = @ + 1]
                    ELSE NoScan
  /\ UNCHANGED <<kids, bad>>
  /\ UNCHANGED <<tableVars, readVars, auxVars>>

MergePrev ==
  /\ n_ >= 2
  /\ Valid
  /\ LET ch1 == IF direction_ # "kReverse"
                THEN PrevReposition(children_, current_) ELSE children_
         ch2 == [ch1 EXCEPT ![current_] =
                   ChildPrev(kids[current_], bad[current_], ch1[current_])]
         cur == FindLargest(ch2)
     IN  /\ children_' = ch2
         /\ current_' = cur
         /\ direction_' = "kReverse"
         /\ scan' = IF scan.kind = "rev"
                    THEN [scan EXCEPT !.steps = @ + 1, !.out = @ \o Visited(ch2, cur)]
                    ELSE IF scan.kind = "fwd"
                    THEN [scan EXCEPT !.kind = "fwdPrev", !.steps = @ + 1]
                    ELSE NoScan
  /\ UNCHANGED <<kids, bad>>
  /\ UNCHANGED <<tableVars, readVars, auxVars>>

\* The state after the constructor: no child positioned, current_ = nullptr.
MergeConstructed(maxKey, maxChildren, faulty) ==
  /\ kids \in UNION {[1..n -> {SortedSeq(S) : S \in SUBSET (1..maxKey)}] :
                       n \in 2..maxChildren}
  /\ bad \in IF faulty
             THEN {b \in [1..Len(kids) -> 0..maxKey] :
                     \A i \in 1..Len(kids) : b[i] <= Len(kids[i])}
             ELSE {[i \in 1..Len(kids) |-> 0]}
  /\ children_ = [i \in 1..Len(kids) |-> [pos |-> 0, status |-> "OK"]]
  /\ current_ = 0
  /\ direction_ = "kForward"
  /\ scan = NoScan

\* The state after the constructor over children whose reads may fail with
\* Corruption or with IOError.
MergeFailingConstructed ==
  /\ kids \in UNION {[1..n -> {SortedSeq(S) : S \in SUBSET (1..StatusMaxKey)}] :
                       n \in 2..StatusMaxChildren}
  /\ bad \in {b \in [1..Len(kids) -> (-StatusMaxKey)..StatusMaxKey] :
               \A i \in 1..Len(kids) : b[i] <= Len(kids[i]) /\ -b[i] <= Len(kids[i])}
  /\ children_ = [i \in 1..Len(kids) |-> [pos |-> 0, status |-> "OK"]]
  /\ current_ = 0
  /\ direction_ = "kForward"
  /\ scan = NoScan

MergeStep ==
  \/ MergeSeekToFirst
  \/ MergeSeekToLast
  \/ \E target \in 1..(MaxKey + 1) : MergeSeek(target)
  \/ MergeNext
  \/ MergePrev

\* ------------------------------------------------- sizes and encodings
\* The 5-byte block trailer and the 48-byte footer.
kBlockTrailerSize == 5
kFooterEncodedLength == 48

\* The length of the varint encoding of v.
VarintLength(v) ==
  IF v < 128 THEN 1 ELSE IF v < 16384 THEN 2 ELSE IF v < 2097152 THEN 3 ELSE 4

\* Keys are one byte long; a data value v stands for a string of v bytes.
kKeyBytes == 1

\* BlockHandle::EncodeTo: the varints of offset and size.
EncodeTo(h) == <<h.offset, h.size>>
EncodedLength(h) == VarintLength(h.offset) + VarintLength(h.size)

\* PutFixed32 / DecodeFixed32: the four low bytes, little-endian.
Fixed32(v) ==
  <<v % 256, (v \div 256) % 256, (v \div 65536) % 256, (v \div 16777216) % 256>>

DecodeFixed32(bytes, at) ==
  bytes[at + 1] + 256 * bytes[at + 2] + 65536 * bytes[at + 3] + 16777216 * bytes[at + 4]

RECURSIVE Flatten(_)
Flatten(ss) == IF ss = << >> THEN << >> ELSE Head(ss) \o Flatten(Tail(ss))

\* ------------------------------------------------- BlockBuilder
\* buffer_ is kept as the list of records and its size in bytes.
EmptyBlock == [entries |-> << >>, bytes |-> 0]

\* One record: shared, non_shared and value_len varints, key delta, value
\* (one-byte keys share no prefix).
RecordSize(klen, vlen) ==
  VarintLength(0) + VarintLength(klen) + VarintLength(vlen) + klen + vlen

BlockAdd(b, key, klen, value, vlen) ==
  [entries |-> Append(b.entries, <<key, value>>),
   bytes   |-> b.bytes + RecordSize(klen, vlen)]

\* empty(): buffer_.empty()
BlockEmpty(b) == b.bytes = 0

\* restarts_.size(): restart 0, and one more every interval records.
NumRestarts(b, interval) ==
  IF Len(b.entries) = 0 THEN 1 ELSE 1 + ((Len(b.entries) - 1) \div interval)

CurrentSizeEstimate(b, interval) == b.bytes + 4 * NumRestarts(b, interval) + 4

\* Finish(): the records, the restart array and its length.
BlockFinish(b, interval) ==
  [body |-> b.entries, size |-> CurrentSizeEstimate(b, interval)]

\* ------------------------------------------------- FilterPolicy
\* A policy in the manner of the filter block's test policy: the filter of
\* a key list holds one byte per key, the key's hash; a key may match a
\* filter that holds its hash.
kHashMod == 2
Hash(key) == key % kHashMod
CreateFilter(keys) == [i \in 1..Len(keys) |-> Hash(keys[i])]
\* A second policy, "AlwaysMatch", answers true for every key and filter, as
\* the contract of FilterPolicy::KeyMayMatch allows.
PolicyKeyMayMatch(policy, key, filter) ==
  IF policy = "AlwaysMatch" THEN TRUE
  ELSE \E i \in 1..Len(filter) : filter[i] = Hash(key)

\* ------------------------------------------------- FilterBlockBuilder
kFilterBaseLg == 11
kFilterBase == 2 ^ kFilterBaseLg

\* keys_ and start_ are kept as the list of pending keys; calls_ is the
\* history of the calls the table builder has made on the filter block.
NewFilterBlockBuilder(policy) ==
  [live |-> policy # "null", policy_ |-> policy,
   keys_ |-> << >>, result_ |-> << >>, filter_offsets_ |-> << >>,
   calls_ |-> << >>]

\* The filter block after a call of the table builder, the call recorded.
Called(fb, call) == [fb EXCEPT !.calls_ = Append(@, call)]

\* GenerateFilter that leaves keys_ (and start_) as they are.
GenerateFilterKeepsKeys(fb) ==
  IF Len(fb.keys_) = 0
  THEN [fb EXCEPT !.filter_offsets_ = Append(@, Len(fb.result_))]
  ELSE [fb EXCEPT !.filter_offsets_ = Append(@, Len(fb.result_)),
                  !.result_ = @ \o CreateFilter(fb.keys_)]

GenerateFilter(fb) ==
  IF Len(fb.keys_) = 0
  THEN [fb EXCEPT !.filter_offsets_ = Append(@, Len(fb.result_))]
  ELSE [fb EXCEPT !.filter_offsets_ = Append(@, Len(fb.result_)),
                  !.result_ = @ \o CreateFilter(fb.keys_),
                  !.keys_ = << >>]

\* The while loop of StartBlock.
RECURSIVE GenerateUpTo(_, _)
GenerateUpTo(fb, filter_index) ==
  IF filter_index > Len(fb.filter_offsets_)
  THEN GenerateUpTo(GenerateFilter(fb), filter_index)
  ELSE fb

\* StartBlock whose loop runs while filter_index >= filter_offsets_.size().
StartBlockOneMore(fb, block_offset) ==
  GenerateUpTo(fb, (block_offset \div kFilterBase) + 1)

StartBlock(fb, block_offset) == GenerateUpTo(fb, block_offset \div kFilterBase)

\* assert(filter_index >= filter_offsets_.size()) of StartBlock
StartBlockAssert(fb, block_offset) ==
  (block_offset \div kFilterBase) >= Len(fb.filter_offsets_)

AddKey(fb, key) == [fb EXCEPT !.keys_ = Append(@, key)]

\* Finish(): result_ with the offset array, its start and kFilterBaseLg appended.
FilterFinish(fb) ==
  LET g == IF Len(fb.keys_) # 0 THEN GenerateFilter(fb) ELSE fb
      array_offset == Len(g.result_)
  IN  [g EXCEPT !.result_ =
         @ \o Flatten([i \in 1..Len(g.filter_offsets_) |-> Fixed32(g.filter_offsets_[i])])
           \o Fixed32(array_offset) \o <<kFilterBaseLg>>]

\* ------------------------------------------------- FilterBlockReader
\* The constructor: data_, offset_ (as an index into contents), num_, base_lg_.
FilterBlockReader(policy, contents) ==
  LET n == Len(contents)
  IN  IF n < 5
      THEN [policy_ |-> policy, data |-> contents, offset_ |-> 0, num_ |-> 0,
            base_lg_ |-> 0]
      ELSE LET last_word == DecodeFixed32(contents, n - 5)
           IN  IF last_word > n - 5
               THEN [policy_ |-> policy, data |-> contents, offset_ |-> 0,
                     num_ |-> 0, base_lg_ |-> contents[n]]
               ELSE [policy_ |-> policy, data |-> contents, offset_ |-> last_word,
                     num_ |-> (n - 5 - last_word) \div 4, base_lg_ |-> contents[n]]

KeyMayMatch(reader, block_offset, key) ==
  LET index == block_offset \div (2 ^ reader.base_lg_)
  IN  IF index < reader.num_
      THEN LET start == DecodeFixed32(reader.data, reader.offset_ + index * 4)
               limit == DecodeFixed32(reader.data, reader.offset_ + index * 4 + 4)
           IN  IF start <= limit /\ limit <= reader.offset_
               THEN PolicyKeyMayMatch(reader.policy_, key,
                                      SubSeq(reader.data, start + 1, limit))
               ELSE IF start = limit THEN FALSE
               ELSE TRUE
      ELSE TRUE

\* ------------------------------------------------- WritableFile
\* A chunk is one successful Append: what was written (kind, body) and its
\* size in bytes.  The calls of one TableBuilder operation are numbered;
\* s.failAt = k makes the k-th of them fail (0: none fails).
FileAppend(s, chunk) ==
  IF s.failAt = 1
  THEN [s EXCEPT !.failAt = 0, !.rep.status = "IOError"]
  ELSE [s EXCEPT !.failAt = IF @ = 0 THEN 0 ELSE @ - 1,
                 !.file = Append(@, chunk),
                 !.rep.status = "OK"]

FileFlush(s) ==
  IF s.failAt = 1
  THEN [s EXCEPT !.failAt = 0, !.rep.status = "IOError"]
  ELSE [s EXCEPT !.failAt = IF @ = 0 THEN 0 ELSE @ - 1, !.rep.status = "OK"]

RECURSIVE SumSizes(_, _)
SumSizes(f, i) == IF i = 0 THEN 0 ELSE f[i].size + SumSizes(f, i - 1)

\* The file position at which chunk i starts.
ChunkOffset(f, i) == SumSizes(f, i - 1)

\* ------------------------------------------------- TableBuilder
NewRep(opt) ==
  [options |-> opt,
   index_block_options |-> [opt EXCEPT !.block_restart_interval = 1],
   offset |-> 0,
   status |-> "OK",
   data_block |-> EmptyBlock,
   index_block |-> EmptyBlock,
   last_key |-> 0,
   num_entries |-> 0,
   closed |-> FALSE,
   filter_block |-> NewFilterBlockBuilder(opt.filter_policy),
   pending_index_entry |-> FALSE,
   pending_handle |-> [offset |-> 0, size |-> 0]]

ok(s) == s.rep.status = "OK"

\* WriteRawBlock that advances the offset by the size of the contents only.
WriteRawBlockNoTrailerSize(s, contents, type, kind) ==
  LET Advance(s1, s2) ==
        IF ok(s1) /\ ok(s2)
        THEN [s2 EXCEPT !.rep.offset = @ + contents.size]
        ELSE s2
      Trailer(s1) ==
        Advance(s1, IF ok(s1)
                    THEN FileAppend(s1, [kind |-> "trailer", body |-> <<type>>,
                                         size |-> kBlockTrailerSize])
                    ELSE s1)
  IN  [s |-> Trailer(FileAppend(s, [kind |-> kind, body |-> contents.body,
                                    size |-> contents.size])),
       handle |-> [offset |-> s.rep.offset, size |-> contents.size]]

\* WriteRawBlock: the handle is set before the appends are tried.
WriteRawBlock(s, contents, type, kind) ==
  LET Advance(s1, s2) ==
        IF ok(s1) /\ ok(s2)
        THEN [s2 EXCEPT !.rep.offset = @ + contents.size + kBlockTrailerSize]
        ELSE s2
      Trailer(s1) ==
        Advance(s1, IF ok(s1)
                    THEN FileAppend(s1, [kind |-> "trailer", body |-> <<type>>,
                                         size |-> kBlockTrailerSize])
                    ELSE s1)
  IN  [s |-> Trailer(FileAppend(s, [kind |-> kind, body |-> contents.body,
                                    size |-> contents.size])),
       handle |-> [offset |-> s.rep.offset, size |-> contents.size]]

\* port::Snappy_Compress in a build without the library: it reports failure.
Snappy_Compress(raw) == [done |-> FALSE, size |-> 0]

\* WriteBlock without the final block->Reset(), which the callers model.
WriteBlock(s, block, interval, kind) ==
  LET raw == BlockFinish(block, interval)
      c   == Snappy_Compress(raw)
      compressed == /\ s.rep.options.compression = "kSnappyCompression"
                    /\ c.done
                    /\ c.size < raw.size - (raw.size \div 8)
  IN  IF compressed
      THEN WriteRawBlock(s, [body |-> raw.body, size |-> c.size],
                         "kSnappyCompression", kind)
      ELSE WriteRawBlock(s, raw, "kNoCompression", kind)

\* Flush without the return on an empty data block.
FlushNoEmptyCheck(s) ==
  IF ~ok(s) THEN s
  ELSE LET StartNext(s2) ==
             IF s2.rep.filter_block.live
             THEN [s2 EXCEPT !.rep.filter_block =
                               Called(StartBlock(@, s2.rep.offset),
                                      <<"StartBlock", s2.rep.offset>>),
                             !.failed_assert =
                                @ \/ ~StartBlockAssert(s2.rep.filter_block, s2.rep.offset)]
             ELSE s2
           Sync(s1) ==
             StartNext(IF ok(s1)
                       THEN FileFlush([s1 EXCEPT !.rep.pending_index_entry = TRUE])
                       ELSE s1)
           Written(w) ==
             Sync([w.s EXCEPT !.rep.pending_handle = w.handle,
                              !.rep.data_block = EmptyBlock,
                              !.failed_assert = @ \/ s.rep.pending_index_entry])
       IN  Written(WriteBlock(s, s.rep.data_block,
                              s.rep.options.block_restart_interval, "data"))

Flush(s) ==
  IF ~ok(s) THEN s
  ELSE IF BlockEmpty(s.rep.data_block) THEN s
  ELSE LET StartNext(s2) ==
             IF s2.rep.filter_block.live
             THEN [s2 EXCEPT !.rep.filter_block =
                               Called(StartBlock(@, s2.rep.offset),
                                      <<"StartBlock", s2.rep.offset>>),
                             !.failed_assert =
                                @ \/ ~StartBlockAssert(s2.rep.filter_block, s2.rep.offset)]
             ELSE s2
           Sync(s1) ==
             StartNext(IF ok(s1)
                       THEN FileFlush([s1 EXCEPT !.rep.pending_index_entry = TRUE])
                       ELSE s1)
           Written(w) ==
             Sync([w.s EXCEPT !.rep.pending_handle = w.handle,
                              !.rep.data_block = EmptyBlock,
                              !.failed_assert = @ \/ s.rep.pending_index_entry])
       IN  Written(WriteBlock(s, s.rep.data_block,
                              s.rep.options.block_restart_interval, "data"))

\* EmitIndexEntry that leaves pending_index_entry set.
EmitIndexEntryKeepsPending(s, sep) ==
  [s EXCEPT !.rep.last_key = sep,
            !.rep.index_block =
               BlockAdd(@, sep, kKeyBytes, EncodeTo(s.rep.pending_handle),
                        EncodedLength(s.rep.pending_handle))]

\* The index entry for the block behind pending_handle, under key sep.
EmitIndexEntry(s, sep) ==
  [s EXCEPT !.rep.last_key = sep,
            !.rep.index_block =
               BlockAdd(@, sep, kKeyBytes, EncodeTo(s.rep.pending_handle),
                        EncodedLength(s.rep.pending_handle)),
            !.rep.pending_index_entry = FALSE]

\* Add with last_key assigned before the pending index entry is emitted, so
\* that the entry goes under the new key.
AddAssignsLastKeyFirst(s, key, value, sep) ==
  IF ~ok(s) THEN s
  ELSE LET Grown(s3) ==
             IF CurrentSizeEstimate(s3.rep.data_block,
                                    s3.rep.options.block_restart_interval)
                  >= s3.rep.options.block_size
             THEN Flush(s3)
             ELSE s3
           Stored(s2) ==
             Grown([s2 EXCEPT !.rep.last_key = key,
                              !.rep.num_entries = @ + 1,
                              !.rep.data_block =
                                 BlockAdd(@, key, kKeyBytes, value, value)])
           Filtered(s1) ==
             Stored(IF s1.rep.filter_block.live
                    THEN [s1 EXCEPT !.rep.filter_block =
                                      Called(AddKey(@, key), <<"AddKey", key>>)]
                    ELSE s1)
       IN  Filtered(IF s.rep.pending_index_entry THEN EmitIndexEntry(s, key) ELSE s)

\* Add(key, value); sep is what FindShortestSeparator(&last_key, key) leaves
\* in last_key.
Add(s, key, value, sep) ==
  IF ~ok(s) THEN s
  ELSE LET Grown(s3) ==
             IF CurrentSizeEstimate(s3.rep.data_block,
                                    s3.rep.options.block_restart_interval)
                  >= s3.rep.options.block_size
             THEN Flush(s3)
             ELSE s3
           Stored(s2) ==
             Grown([s2 EXCEPT !.rep.last_key = key,
                              !.rep.num_entries = @ + 1,
                              !.rep.data_block =
                                 BlockAdd(@, key, kKeyBytes, value, value)])
           Filtered(s1) ==
             Stored(IF s1.rep.filter_block.live
                    THEN [s1 EXCEPT !.rep.filter_block =
                                      Called(AddKey(@, key), <<"AddKey", key>>)]
                    ELSE s1)
       IN  Filtered(IF s.rep.pending_index_entry
                    THEN [EmitIndexEntry(s, sep) EXCEPT
                            !.failed_assert = @ \/ ~BlockEmpty(s.rep.data_block)]
                    ELSE s)

\* The part of Finish that writes the filter block.
FinishFilter(s) ==
  IF ok(s) /\ s.rep.filter_block.live
  THEN LET Write(fb) ==
             WriteRawBlock([s EXCEPT !.rep.filter_block = fb],
                           [body |-> fb.result_, size |-> Len(fb.result_)],
                           "kNoCompression", "filter")
       IN  Write(Called(FilterFinish(s.rep.filter_block), <<"Finish">>))
  ELSE [s |-> s, handle |-> [offset |-> -1, size |-> -1]]

\* The part of Finish that writes the metaindex block.
FinishMetaindex(s, filter_block_handle) ==
  IF ok(s)
  THEN LET name == s.rep.options.filter_policy
           meta_index_block ==
             IF s.rep.filter_block.live
             THEN BlockAdd(EmptyBlock, <<"filter.", name>>, 7 + 14,
                           EncodeTo(filter_block_handle),
                           EncodedLength(filter_block_handle))
             ELSE EmptyBlock
       IN  WriteBlock(s, meta_index_block,
                      s.rep.options.block_restart_interval, "metaindex")
  ELSE [s |-> s, handle |-> [offset |-> -1, size |-> -1]]

\* The index block written without the entry of the last data block.
FinishIndexNoPending(s, succ) ==
  IF ok(s)
  THEN LET Written(w) ==
             [s |-> [w.s EXCEPT !.rep.index_block = EmptyBlock], handle |-> w.handle]
       IN  Written(WriteBlock(s, s.rep.index_block,
                              s.rep.index_block_options.block_restart_interval,
                              "index"))
  ELSE [s |-> s, handle |-> [offset |-> -1, size |-> -1]]

\* The part of Finish that writes the index block; succ is what
\* FindShortSuccessor(&last_key) leaves in last_key.
FinishIndex(s, succ) ==
  IF ok(s)
  THEN LET Written(w) ==
             [s |-> [w.s EXCEPT !.rep.index_block = EmptyBlock], handle |-> w.handle]
           Write(s1) ==
             Written(WriteBlock(s1, s1.rep.index_block,
                                s1.rep.index_block_options.block_restart_interval,
                                "index"))
       IN  Write(IF s.rep.pending_index_entry THEN EmitIndexEntry(s, succ) ELSE s)
  ELSE [s |-> s, handle |-> [offset |-> -1, size |-> -1]]

\* The footer written without the check of ok().
FinishFooterUnchecked(s, metaindex_block_handle, index_block_handle) ==
  LET Appended(s1) ==
        IF ok(s1) THEN [s1 EXCEPT !.rep.offset = @ + kFooterEncodedLength] ELSE s1
  IN  Appended(FileAppend(s, [kind |-> "footer",
                              body |-> [metaindex_handle |-> metaindex_block_handle,
                                        index_handle |-> index_block_handle],
                              size |-> kFooterEncodedLength]))

\* The part of Finish that writes the footer.
FinishFooter(s, metaindex_block_handle, index_block_handle) ==
  IF ok(s)
  THEN LET Appended(s1) ==
             IF ok(s1) THEN [s1 EXCEPT !.rep.offset = @ + kFooterEncodedLength] ELSE s1
       IN  Appended(FileAppend(s, [kind |-> "footer",
                                   body |-> [metaindex_handle |-> metaindex_block_handle,
                                             index_handle |-> index_block_handle],
                                   size |-> kFooterEncodedLength]))
  ELSE s

\* Finish with the index block written before the metaindex block.
FinishIndexFirst(s, succ) ==
  LET Footer(i, m) == FinishFooter(m.s, m.handle, i.handle)
      Meta(f, i) == Footer(i, FinishMetaindex(i.s, f.handle))
      Index(f) == Meta(f, FinishIndex(f.s, succ))
  IN  Index(FinishFilter([Flush(s) EXCEPT !.rep.closed = TRUE]))

Finish(s, succ) ==
  LET Footer(m, i) == FinishFooter(i.s, m.handle, i.handle)
      Index(m) == Footer(m, FinishIndex(m.s, succ))
      Meta(f) == Index(FinishMetaindex(f.s, f.handle))
  IN  Meta(FinishFilter([Flush(s) EXCEPT !.rep.closed = TRUE]))

\* ChangeOptions that leaves the index block's options as the caller's.
ChangeOptionsNoRestartReset(r, options) ==
  IF options.comparator # r.options.comparator
  THEN [rep |-> r, status |-> "InvalidArgument"]
  ELSE [rep |-> [r EXCEPT !.options = options,
                          !.index_block_options = options],
        status |-> "OK"]

\* ChangeOptions(options) on the Rep r: the Rep after it and the status
\* returned.
ChangeOptions(r, options) ==
  IF options.comparator # r.options.comparator
  THEN [rep |-> r, status |-> "InvalidArgument"]
  ELSE [rep |-> [r EXCEPT !.options = options,
                          !.index_block_options =
                             [options EXCEPT !.block_restart_interval = 1]],
        status |-> "OK"]

\* ------------------------------------------------- TableBuilder: the calls
\* The keys a table may hold, the value sizes, the block_size options and the
\* number of file calls one operation can make.
TableKeys == 1..MaxTableKey
FailPoints == 0..kMaxFileCalls

\* What FindShortestSeparator(start, limit) may leave in start: a <= s < b.
Separators(start, limit) == {x \in 0..MaxTableKey : start <= x /\ x < limit}
\* What FindShortSuccessor(key) may leave in key: s >= key.
Successors(key) == {x \in 0..(MaxTableKey + 1) : x >= key}

Bundle(failAt) ==
  [rep |-> rep, file |-> file, failAt |-> failAt, failed_assert |-> failed_assert]

Unbundle(s) ==
  /\ rep' = s.rep
  /\ file' = s.file
  /\ failed_assert' = s.failed_assert

TableAdd(key, value, failAt) ==
  /\ ~rep.closed
  /\ rep.num_entries > 0 => key > rep.last_key
  /\ \E sep \in (IF ok(Bundle(0)) /\ rep.pending_index_entry
                 THEN Separators(rep.last_key, key) ELSE {0}) :
       Unbundle(Add(Bundle(failAt), key, value, sep))
  /\ added' = IF rep.status = "OK" THEN Append(added, <<key, value>>) ELSE added
  /\ ret' = "void"
  /\ rejected' = (rejected \/ rep.status # "OK")
  /\ UNCHANGED <<auxVars, mergeVars, readVars, scan>>

\* Add with a key that is not after the last one.  On a builder whose status is not OK Add
\* returns before the assert; otherwise the assert on the order ends a
\* program built with assertions, and one built with NDEBUG goes on.
\* FindShortestSeparator leaves last_key as it is when the key is not
\* greater.
InOrder(entries) ==
  \A i \in 1..Len(entries), j \in 1..Len(entries) :
    i < j => entries[i][1] < entries[j][1]

TableAddUnordered(key, value, failAt, ndebug) ==
  /\ ~rep.closed
  /\ rep.num_entries > 0 /\ key <= rep.last_key
  /\ IF rep.status = "OK" /\ ~ndebug
     THEN failed_assert' = TRUE /\ UNCHANGED <<rep, file, added>>
     ELSE /\ Unbundle(Add(Bundle(failAt), key, value, rep.last_key))
          /\ added' = IF rep.status = "OK"
                      THEN Append(added, <<key, value>>) ELSE added
  /\ ret' = "void"
  /\ rejected' = (rejected \/ rep.status # "OK")
  /\ UNCHANGED <<auxVars, mergeVars, readVars, scan>>

\* The options a caller passes to ChangeOptions: another comparator, block
\* size or restart interval (the blocks of these tables hold fewer than 16
\* entries, so that both intervals give the same restarts); the filter policy
\* and the compression are the builder's.
ChangedOptions ==
  {[rep.options EXCEPT !.comparator = c,
                       !.block_size = bs,
                       !.block_restart_interval = ri] :
     c \in {"leveldb.BytewiseComparator", "test.ReverseComparator"},
     bs \in BlockSizes, ri \in {16, 32}}

TableChangeOptions(options) ==
  /\ rep' = ChangeOptions(rep, options).rep
  /\ ret' = ChangeOptions(rep, options).status
  /\ UNCHANGED <<auxVars, mergeVars, readVars, scan, added, file, failed_assert, rejected>>

TableFlush(failAt) ==
  /\ ~rep.closed
  /\ Unbundle(Flush(Bundle(failAt)))
  /\ ret' = "void"
  /\ rejected' = (rejected \/ rep.status # "OK")
  /\ UNCHANGED <<auxVars, mergeVars, readVars, scan, added>>

TableFinish(failAt) ==
  /\ ~rep.closed
  /\ \E succ \in (IF rep.pending_index_entry \/ ~BlockEmpty(rep.data_block)
                  THEN Successors(rep.last_key) ELSE {0}) :
       LET s == Finish(Bundle(failAt), succ)
       IN  Unbundle(s) /\ ret' = s.rep.status
  /\ rejected' = (rejected \/ rep.status # "OK")
  /\ UNCHANGED <<auxVars, mergeVars, readVars, scan, added>>

TableAbandon ==
  /\ ~rep.closed
  /\ rep' = [rep EXCEPT !.closed = TRUE]
  /\ ret' = "void"
  /\ UNCHANGED <<auxVars, mergeVars, readVars, scan, added, file, failed_assert, rejected>>

\* Calls on the builder's filter block with the offsets of blocks of any
\* size: AddKey as Add makes it, StartBlock as Flush makes it with the file
\* offset after the block, which never decreases.
kStartUnit == 1024
BlockStarts == {i * kStartUnit : i \in 0..MaxBlockStart}

\* One key for each value of the policy's hash.
FilterKeys == 1..kHashMod

FilterAddKey(key) ==
  /\ rep.filter_block.live
  /\ Len(rep.filter_block.keys_) < MaxPendingKeys
  /\ rep' = [rep EXCEPT !.filter_block = AddKey(@, key)]
  /\ UNCHANGED <<auxVars, mergeVars, readVars, scan, added, file, ret,
                 failed_assert, rejected>>

FilterStartBlock(block_offset) ==
  /\ rep.filter_block.live
  /\ block_offset >= rep.offset
  /\ rep' = [rep EXCEPT !.offset = block_offset,
                        !.filter_block = StartBlock(@, block_offset)]
  /\ failed_assert' =
       (failed_assert \/ ~StartBlockAssert(rep.filter_block, block_offset))
  /\ UNCHANGED <<auxVars, mergeVars, readVars, scan, added, file, ret, rejected>>

FilterStep ==
  \/ \E key \in FilterKeys : FilterAddKey(key)
  \/ \E block_offset \in BlockStarts : FilterStartBlock(block_offset)

\* A constructor that does not call StartBlock(0) on the filter block.
TableConstructedNoStartBlock ==
  /\ \E bs \in BlockSizes, policy \in {"null", "TestHashFilter"} :
       rep = NewRep([comparator |-> "leveldb.BytewiseComparator",
                     block_size |-> bs,
                     block_restart_interval |-> 16,
                     compression |-> "kSnappyCompression",
                     filter_policy |-> policy])
  /\ file = << >>
  /\ ret = "void"
  /\ added = << >>
  /\ failed_assert = FALSE
  /\ rejected = FALSE

\* The state after TableBuilder's constructor (which calls StartBlock(0)).
TableConstructed ==
  /\ \E bs \in BlockSizes, policy \in {"null", "TestHashFilter"} :
       rep = [NewRep([comparator |-> "leveldb.BytewiseComparator",
                      block_size |-> bs,
                      block_restart_interval |-> 16,
                      compression |-> "kSnappyCompression",
                      filter_policy |-> policy])
              EXCEPT !.filter_block =
                       IF @.live
                       THEN Called(StartBlock(@, 0), <<"StartBlock", 0>>)
                       ELSE @]
  /\ file = << >>
  /\ ret = "void"
  /\ added = << >>
  /\ failed_assert = FALSE
  /\ rejected = FALSE

\* No table builder: the variables of the table hold nothing.
TableAbsent ==
  /\ rep = [NewRep([comparator |-> "leveldb.BytewiseComparator",
                    block_size |-> 4096,
                    block_restart_interval |-> 16,
                    compression |-> "kSnappyCompression",
                    filter_policy |-> "null"])
            EXCEPT !.closed = TRUE]
  /\ file = << >>
  /\ ret = "void"
  /\ added = << >>
  /\ failed_assert = FALSE
  /\ rejected = FALSE

\* No merging iterator.
MergeAbsent ==
  /\ kids = << >>
  /\ bad = << >>
  /\ children_ = << >>
  /\ current_ = 0
  /\ direction_ = "kForward"

TableStep ==
  \/ \E key \in TableKeys, value \in ValueSizes, failAt \in 0..3 :
       TableAdd(key, value, failAt)
  \/ \E failAt \in 0..3 : TableFlush(failAt)
  \/ \E failAt \in FailPoints : TableFinish(failAt)
  \/ TableAbandon

\* ------------------------------------------------- reading a table
\* The chunk a handle encoding <<offset, size>> points at, or 0: a block
\* payload of that size at that offset, followed by its trailer.
ChunkAt(f, h) ==
  IF \E i \in 1..(Len(f) - 1) :
       /\ ChunkOffset(f, i) = h[1] /\ f[i].size = h[2]
       /\ f[i].kind \in {"data", "index", "metaindex"} /\ f[i + 1].kind = "trailer"
  THEN CHOOSE i \in 1..(Len(f) - 1) :
         /\ ChunkOffset(f, i) = h[1] /\ f[i].size = h[2]
         /\ f[i].kind \in {"data", "index", "metaindex"} /\ f[i + 1].kind = "trailer"
  ELSE 0

\* The entries of the index block the footer of file f names.
IndexOf(f) == f[ChunkAt(f, EncodeTo(f[Len(f)].body.index_handle))].body

\* Can the block behind the handle be read?
Readable(h) == ChunkAt(file, h) # 0 /\ h[1] \notin tab.unreadable

BlockEntries(h) ==
  IF Readable(h) /\ h[1] \notin tab.empty THEN file[ChunkAt(file, h)].body ELSE << >>

KeysOf(entries) == [i \in 1..Len(entries) |-> entries[i][1]]

\* ------------------------------------------------- TwoLevelIterator
\* data_iter_ = nullptr
NullIter == [held |-> FALSE, h |-> << >>, pos |-> 0, status |-> "OK"]

\* block_function_: an iterator over the block, or an error iterator.
BlockFunction(h) ==
  [held |-> TRUE, h |-> h, pos |-> 0,
   status |-> IF Readable(h) THEN "OK"
              ELSE IF h[1] \in tab.ioerror THEN "IOError" ELSE "Corruption"]

\* The last five fields are a history kept while audit is set: how many
\* iterators the block function has returned, how many of them have been
\* deleted, the largest number of them alive at one instant, whether the
\* two-level iterator itself has been deleted, the status of the first
\* data iterator that was deleted with a status other than OK, whether the
\* block function was ever called without a valid index entry or for the
\* block of the iterator held, and whether InitDataBlock ever found the
\* block of the index entry open already.
NewTwoLevelIterator ==
  [live |-> TRUE,
   index_iter_ |-> [pos |-> 0, status |-> "OK"],
   data_iter_ |-> NullIter,
   data_block_handle_ |-> << >>,
   status_ |-> "OK",
   audit |-> FALSE, obtained |-> 0, deleted |-> 0, peak |-> 0, destroyed |-> FALSE,
   dropped |-> "OK", reread |-> FALSE, kept |-> FALSE]

\* The history after the block function has returned an iterator, and after
\* an iterator it returned has been deleted.
Obtained(t) ==
  IF ~t.audit THEN t
  ELSE [t EXCEPT !.obtained = @ + 1,
                 !.peak = IF t.obtained - t.deleted + 1 > @
                          THEN t.obtained - t.deleted + 1 ELSE @,
                 !.reread =
                    \/ @
                    \/ t.index_iter_.pos = 0
                    \/ /\ t.index_iter_.pos # 0
                       /\ t.data_iter_.held
                       /\ tab.index[t.index_iter_.pos][2] = t.data_block_handle_]

Kept(t) == IF ~t.audit THEN t ELSE [t EXCEPT !.kept = TRUE]

Deleted(t) ==
  IF ~t.audit THEN t
  ELSE [t EXCEPT !.deleted = @ + 1,
                 !.dropped = IF @ = "OK" THEN t.data_iter_.status ELSE @]

NoTwoLevelIterator == [NewTwoLevelIterator EXCEPT !.live = FALSE]

IndexKeys == KeysOf(tab.index)
IndexValid(t) == t.index_iter_.pos # 0
IndexMove(t, p) ==
  [t EXCEPT !.index_iter_ = Land(IndexKeys, tab.ixbad, t.index_iter_, p)]
IndexSeekToFirst(t) == IndexMove(t, IF Len(tab.index) > 0 THEN 1 ELSE 0)
IndexSeekToLast(t) == IndexMove(t, Len(tab.index))
IndexSeek(t, target) == IndexMove(t, LowerBound(IndexKeys, target))
IndexNext(t) ==
  IndexMove(t, IF t.index_iter_.pos < Len(tab.index) THEN t.index_iter_.pos + 1 ELSE 0)
IndexPrev(t) == IndexMove(t, t.index_iter_.pos - 1)

DataKeys(t) == KeysOf(BlockEntries(t.data_iter_.h))
DataValid(t) == t.data_iter_.pos # 0
DataMove(t, p) ==
  [t EXCEPT !.data_iter_ =
     [@ EXCEPT !.pos = IF t.data_iter_.status # "OK" THEN 0 ELSE p]]
DataSeekToFirst(t) == DataMove(t, IF Len(DataKeys(t)) > 0 THEN 1 ELSE 0)
DataSeekToLast(t) == DataMove(t, Len(DataKeys(t)))
DataSeek(t, target) == DataMove(t, LowerBound(DataKeys(t), target))
DataNext(t) ==
  DataMove(t, IF t.data_iter_.pos < Len(DataKeys(t)) THEN t.data_iter_.pos + 1 ELSE 0)
DataPrev(t) == DataMove(t, t.data_iter_.pos - 1)

\* Valid(): data_iter_.Valid()
TLValid(t) == t.data_iter_.held /\ DataValid(t)

\* status() that ends in the index iterator's status instead of status_.
TLStatusNoSaved(t) ==
  IF t.index_iter_.status # "OK" THEN t.index_iter_.status
  ELSE IF t.data_iter_.held /\ t.data_iter_.status # "OK" THEN t.data_iter_.status
  ELSE t.index_iter_.status

\* status()
TLStatus(t) ==
  IF t.index_iter_.status # "OK" THEN t.index_iter_.status
  ELSE IF t.data_iter_.held /\ t.data_iter_.status # "OK" THEN t.data_iter_.status
  ELSE t.status_

\* SaveError that keeps the last error instead of the first.
SaveErrorOverwrites(t, st) == IF st # "OK" THEN [t EXCEPT !.status_ = st] ELSE t

\* SaveError that drops the status.
SaveErrorDropped(t, st) == t

SaveError(t, st) == IF t.status_ = "OK" /\ st # "OK" THEN [t EXCEPT !.status_ = st] ELSE t

\* IteratorWrapper::Set(iter): deletes the iterator held, holds iter.
WrapperSet(t, data_iter) ==
  [(IF t.data_iter_.held THEN Deleted(t) ELSE t) EXCEPT !.data_iter_ = data_iter]

\* SetDataIterator that overwrites the pointer without the wrapper's delete.
SetDataIteratorLeaks(t, data_iter) ==
  [(IF t.data_iter_.held THEN SaveError(t, t.data_iter_.status) ELSE t)
     EXCEPT !.data_iter_ = data_iter]

SetDataIterator(t, data_iter) ==
  WrapperSet(IF t.data_iter_.held THEN SaveError(t, t.data_iter_.status) ELSE t,
             data_iter)

\* InitDataBlock that does not compare the handle with data_block_handle_.
InitDataBlockAlwaysReads(t) ==
  IF ~IndexValid(t) THEN SetDataIterator(t, NullIter)
  ELSE LET handle == tab.index[t.index_iter_.pos][2]
       IN  SetDataIterator([Obtained(t) EXCEPT !.data_block_handle_ = handle],
                           BlockFunction(handle))

InitDataBlock(t) ==
  IF ~IndexValid(t) THEN SetDataIterator(t, NullIter)
  ELSE LET handle == tab.index[t.index_iter_.pos][2]
       IN  IF t.data_iter_.held /\ handle = t.data_block_handle_
           THEN Kept(t)
           ELSE SetDataIterator([Obtained(t) EXCEPT !.data_block_handle_ = handle],
                                BlockFunction(handle))

\* SkipEmptyDataBlocksForward with an if for the while.
SkipEmptyDataBlocksForwardOnce(t) ==
  IF ~(~t.data_iter_.held \/ ~DataValid(t)) THEN t
  ELSE IF ~IndexValid(t) THEN SetDataIterator(t, NullIter)
  ELSE LET First(t1) == IF t1.data_iter_.held THEN DataSeekToFirst(t1) ELSE t1
       IN  First(InitDataBlock(IndexNext(t)))

RECURSIVE SkipEmptyDataBlocksForward(_)
SkipEmptyDataBlocksForward(t) ==
  IF ~(~t.data_iter_.held \/ ~DataValid(t)) THEN t
  ELSE IF ~IndexValid(t) THEN SetDataIterator(t, NullIter)
  ELSE LET First(t1) == IF t1.data_iter_.held THEN DataSeekToFirst(t1) ELSE t1
       IN  SkipEmptyDataBlocksForward(First(InitDataBlock(IndexNext(t))))

RECURSIVE SkipEmptyDataBlocksBackward(_)
SkipEmptyDataBlocksBackward(t) ==
  IF ~(~t.data_iter_.held \/ ~DataValid(t)) THEN t
  ELSE IF ~IndexValid(t) THEN SetDataIterator(t, NullIter)
  ELSE LET Last(t1) == IF t1.data_iter_.held THEN DataSeekToLast(t1) ELSE t1
       IN  SkipEmptyDataBlocksBackward(Last(InitDataBlock(IndexPrev(t))))

\* Seek without the skip to the next non-empty block.
TLSeekNoSkip(t, target) ==
  LET Sought(t1) == IF t1.data_iter_.held THEN DataSeek(t1, target) ELSE t1
  IN  Sought(InitDataBlock(IndexSeek(t, target)))

TLSeek(t, target) ==
  LET Sought(t1) == IF t1.data_iter_.held THEN DataSeek(t1, target) ELSE t1
  IN  SkipEmptyDataBlocksForward(Sought(InitDataBlock(IndexSeek(t, target))))

TLSeekToFirst(t) ==
  LET First(t1) == IF t1.data_iter_.held THEN DataSeekToFirst(t1) ELSE t1
  IN  SkipEmptyDataBlocksForward(First(InitDataBlock(IndexSeekToFirst(t))))

TLSeekToLast(t) ==
  LET Last(t1) == IF t1.data_iter_.held THEN DataSeekToLast(t1) ELSE t1
  IN  SkipEmptyDataBlocksBackward(Last(InitDataBlock(IndexSeekToLast(t))))

\* Next that stops at the end of the current block.
TLNextNoSkip(t) == DataNext(t)

TLNext(t) == SkipEmptyDataBlocksForward(DataNext(t))

TLPrev(t) == SkipEmptyDataBlocksBackward(DataPrev(t))

\* key() and value(): the pair the data iterator stands on.
TLEntry(t) == BlockEntries(t.data_iter_.h)[t.data_iter_.pos]

TLVisited(t) == IF TLValid(t) THEN <<TLEntry(t)>> ELSE << >>

TLStarted(kind, target, t) ==
  [kind |-> kind, target |-> target, steps |-> 0, out |-> TLVisited(t)]

\* ------------------------------------------------- TwoLevelIterator: the calls
IterSeekToFirst ==
  /\ tl.live
  /\ tl' = TLSeekToFirst(tl)
  /\ scan' = TLStarted("fwd", 0, tl')
  /\ UNCHANGED <<auxVars, mergeVars, tableVars, tab>>

IterSeekToLast ==
  /\ tl.live
  /\ tl' = TLSeekToLast(tl)
  /\ scan' = TLStarted("rev", 0, tl')
  /\ UNCHANGED <<auxVars, mergeVars, tableVars, tab>>

IterSeek(target) ==
  /\ tl.live
  /\ tl' = TLSeek(tl, target)
  /\ scan' = TLStarted("fwd", target, tl')
  /\ UNCHANGED <<auxVars, mergeVars, tableVars, tab>>

IterNext ==
  /\ tl.live
  /\ TLValid(tl)
  /\ tl' = TLNext(tl)
  /\ scan' = IF scan.kind = "fwd"
             THEN [scan EXCEPT !.steps = @ + 1, !.out = @ \o TLVisited(tl')]
             ELSE IF scan.kind = "rev"
             THEN [scan EXCEPT !.kind = "revNext", !.steps = @ + 1]
             ELSE NoScan
  /\ UNCHANGED <<auxVars, mergeVars, tableVars, tab>>

IterPrev ==
  /\ tl.live
  /\ TLValid(tl)
  /\ tl' = TLPrev(tl)
  /\ scan' = IF scan.kind = "rev"
             THEN [scan EXCEPT !.steps = @ + 1, !.out = @ \o TLVisited(tl')]
             ELSE IF scan.kind = "fwd"
             THEN [scan EXCEPT !.kind = "fwdPrev", !.steps = @ + 1]
             ELSE NoScan
  /\ UNCHANGED <<auxVars, mergeVars, tableVars, tab>>

\* ~TwoLevelIterator(): the wrappers delete the iterators they hold.
IterDestroy ==
  /\ tl.live
  /\ tl' = [WrapperSet(tl, NullIter) EXCEPT !.live = FALSE, !.destroyed = TRUE]
  /\ scan' = NoScan
  /\ UNCHANGED <<auxVars, mergeVars, tableVars, tab>>

\* Table::Open and Table::NewIterator on a table finished with OK status: the
\* footer names the index block, whose entries become the first level.
TableNewIterator ==
  /\ ~tl.live
  /\ rep.closed /\ ret = "OK"
  /\ tab' = [index |-> IndexOf(file), ixbad |-> 0, unreadable |-> {}, ioerror |-> {},
            empty |-> {}]
  /\ tl' = NewTwoLevelIterator
  /\ UNCHANGED <<auxVars, mergeVars, tableVars, scan>>

NoTable == [index |-> << >>, ixbad |-> 0, unreadable |-> {}, ioerror |-> {},
            empty |-> {}]

IterStep ==
  \/ IterSeekToFirst
  \/ IterSeekToLast
  \/ \E target \in 1..(MaxTableKey + 1) : IterSeek(target)
  \/ IterNext
  \/ IterPrev

\* ------------------------------------------------- a damaged table
\* The file a TableBuilder writes for keys (each with a one-byte value) when
\* Flush is called after each key of cuts, and Finish at the end.
RECURSIVE WrittenBy(_, _, _)
WrittenBy(s, keys, cuts) ==
  IF keys = << >>
  THEN Finish(s, IF s.rep.num_entries > 0 THEN s.rep.last_key ELSE 0)
  ELSE LET Cut(s1) ==
             WrittenBy(IF Head(keys) \in cuts THEN Flush(s1) ELSE s1, Tail(keys), cuts)
       IN  Cut(Add(s, Head(keys), 1,
                   IF s.rep.pending_index_entry THEN s.rep.last_key ELSE 0))

\* Table::Open and Table::NewIterator on a written table of which some data
\* blocks or one index entry cannot be read.
DamagedTableOf(s, keys) ==
  /\ rep = s.rep
  /\ file = s.file
  /\ added = [i \in 1..Len(keys) |-> <<keys[i], 1>>]
  /\ \E b \in 0..Len(IndexOf(s.file)) :
       \E U \in SUBSET {IndexOf(s.file)[i][2][1] : i \in 1..Len(IndexOf(s.file))} :
         tab = [index |-> IndexOf(s.file), ixbad |-> b, unreadable |-> U,
                ioerror |-> {}, empty |-> {}]
  /\ ret = "OK"
  /\ failed_assert = FALSE
  /\ rejected = FALSE
  /\ tl = NewTwoLevelIterator

DamagedTableOpened ==
  \E S \in SUBSET (1..ErrMaxKey) : \E cuts \in SUBSET S :
    DamagedTableOf(
      WrittenBy([rep |-> NewRep([comparator |-> "leveldb.BytewiseComparator",
                                 block_size |-> 4096,
                                 block_restart_interval |-> 16,
                                 compression |-> "kSnappyCompression",
                                 filter_policy |-> "null"]),
                 file |-> << >>, failAt |-> 0, failed_assert |-> FALSE],
                SortedSeq(S), cuts),
      SortedSeq(S))

\* ------------------------------------------------- BuildTable
\* The iterator over the memtable is a child iterator over b.keys whose read
\* of entry b.bad fails; NewWritableFile, Sync, Close and the iterator of the
\* table cache answer the statuses b.new_file, b.sync, b.close and
\* b.read_back, and the b.failAt-th call the builder makes on the file fails.
\* The entries are small, so that no Add flushes a block and no separator is
\* computed.  A step that is not reached has the status "skipped".
BuildOptions ==
  [comparator |-> "leveldb.BytewiseComparator",
   block_size |-> 4096,
   block_restart_interval |-> 16,
   compression |-> "kSnappyCompression",
   filter_policy |-> "null"]

NewBuilder(failAt) ==
  [rep |-> NewRep(BuildOptions), file |-> << >>, failAt |-> failAt,
   failed_assert |-> FALSE]

\* Table::NewIterator on a written table of which some data blocks cannot be
\* read and some are presented by the block function as blocks without
\* entries.  Where the history of the data iterators is kept, a block that
\* cannot be read fails with an IOError or with a Corruption.
SparseTableOf(s, keys, audit) ==
  /\ rep = s.rep
  /\ file = s.file
  /\ added = [i \in 1..Len(keys) |-> <<keys[i], 1>>]
  /\ \E U \in SUBSET {IndexOf(s.file)[i][2][1] : i \in 1..Len(IndexOf(s.file))} :
       \E E \in SUBSET ({IndexOf(s.file)[i][2][1] : i \in 1..Len(IndexOf(s.file))} \ U) :
         \E I \in SUBSET (IF audit THEN U ELSE {}) :
           tab = [index |-> IndexOf(s.file), ixbad |-> 0, unreadable |-> U,
                  ioerror |-> I, empty |-> E]
  /\ ret = "OK"
  /\ failed_assert = FALSE
  /\ rejected = FALSE
  /\ tl = [NewTwoLevelIterator EXCEPT !.audit = audit]

SparseTableOpened(maxKey, audit) ==
  \E S \in SUBSET (1..maxKey) : \E cuts \in SUBSET S :
    SparseTableOf(WrittenBy(NewBuilder(0), SortedSeq(S), cuts), SortedSeq(S), audit)

NewBuild(keys, b, new_file, failAt, sync, close, read_back) ==
  [live |-> TRUE, keys |-> keys, bad |-> b, new_file |-> new_file,
   failAt |-> failAt, sync |-> sync, close |-> close, read_back |-> read_back,
   done |-> FALSE, ret |-> "void", file_size |-> 0,
   smallest |-> 0, largest |-> 0,
   created |-> FALSE, exists |-> FALSE, removed |-> FALSE, chunks |-> << >>,
   finished |-> "skipped", synced |-> "skipped", closed |-> "skipped",
   verified |-> "skipped", iter_status |-> "skipped",
   failed_assert |-> FALSE]

\* The loop for (; iter->Valid(); iter->Next()) builder->Add(key, value),
\* with the key of the last turn.
RECURSIVE AddAll(_, _, _, _, _)
AddAll(s, keys, b, c, key) ==
  IF ~ChildValid(c) THEN [s |-> s, c |-> c, key |-> key]
  ELSE AddAll(Add(s, keys[c.pos], 1, 0), keys, b, ChildNext(keys, b, c),
              keys[c.pos])

\* The end of BuildTable that lets the builder's result stand whatever the
\* input iterator's status.
BuildDecideIgnoresIterator(o, st, iter) ==
  [o EXCEPT !.done = TRUE,
            !.iter_status = iter.status,
            !.ret = st,
            !.removed = ~(st = "OK" /\ o.file_size > 0),
            !.exists = @ /\ st = "OK" /\ o.file_size > 0]

\* The end of BuildTable: the input iterator's error replaces the status, and
\* the file is removed unless the status is OK and file_size > 0.
BuildDecide(o, st, iter) ==
  LET Keep(final) ==
        [o EXCEPT !.done = TRUE,
                  !.iter_status = iter.status,
                  !.ret = final,
                  !.removed = ~(final = "OK" /\ o.file_size > 0),
                  !.exists = @ /\ final = "OK" /\ o.file_size > 0]
  IN  Keep(IF iter.status # "OK" THEN iter.status ELSE st)

\* Verify that the table is usable.
BuildVerify(o, st, iter) ==
  IF st = "OK"
  THEN BuildDecide([o EXCEPT !.verified = o.read_back], o.read_back, iter)
  ELSE BuildDecide(o, st, iter)

BuildClose(o, st, iter) ==
  IF st = "OK"
  THEN BuildVerify([o EXCEPT !.closed = o.close], o.close, iter)
  ELSE BuildVerify(o, st, iter)

BuildSync(o, st, iter) ==
  IF st = "OK"
  THEN BuildClose([o EXCEPT !.synced = o.sync], o.sync, iter)
  ELSE BuildClose(o, st, iter)

\* s = builder->Finish(); f is the builder after it.
BuildFinished(o, f, iter) ==
  BuildSync([o EXCEPT !.finished = f.rep.status,
                      !.file_size = IF ok(f) THEN f.rep.offset ELSE @,
                      !.failed_assert = f.failed_assert
                                        \/ (ok(f) /\ f.rep.offset <= 0),
                      !.chunks = f.file],
            f.rep.status, iter)

\* r is the outcome of the loop over the input.
BuildLooped(o, r, succ) ==
  BuildFinished([o EXCEPT !.largest = IF r.key # 0 THEN r.key ELSE @],
                Finish(r.s, succ), r.c)

BuildTable(b, succ) ==
  LET Sought(iter) ==
        IF ~ChildValid(iter) THEN BuildDecide(b, "OK", iter)
        ELSE IF b.new_file # "OK"
             THEN [b EXCEPT !.done = TRUE, !.ret = b.new_file]
             ELSE BuildLooped([b EXCEPT !.created = TRUE,
                                        !.exists = TRUE,
                                        !.smallest = b.keys[iter.pos]],
                              AddAll(NewBuilder(b.failAt), b.keys, b.bad,
                                     iter, 0),
                              succ)
  IN  Sought(ChildSeekToFirst(b.keys, b.bad, [pos |-> 0, status |-> "OK"]))

\* ------------------------------------------------- FilterBlockReader: the calls
\* The contents a reader may be given: anything shorter than five bytes, or
\* filter bytes, offset words, the word that locates the offset array and
\* the base_lg byte.
FilterBytes == UNION {[1..n -> 0..(kHashMod - 1)] : n \in 0..MaxFilterBytes}
OffsetWords == UNION {[1..n -> 0..MaxWord] : n \in 0..MaxOffsets}

FilterContents ==
  {<< >>, <<kFilterBaseLg>>, <<0, 0, 0, kFilterBaseLg>>}
  \cup {bytes \o Flatten([i \in 1..Len(words) |-> Fixed32(words[i])])
              \o Fixed32(last_word) \o <<lg>> :
          bytes \in FilterBytes, words \in OffsetWords,
          last_word \in 0..MaxWord, lg \in {0, kFilterBaseLg}}

\* The block offsets and keys KeyMayMatch is asked about.
ProbeOffsets == {0, 1, kFilterBase - 1, kFilterBase, 2 * kFilterBase}
ProbeKeys == 1..2

ProbeConstructed ==
  \E policy \in {"TestHashFilter", "AlwaysMatch"}, contents \in FilterContents :
    probe = [live |-> TRUE, reader |-> FilterBlockReader(policy, contents),
             called |-> FALSE, block_offset |-> 0, key |-> 0, result |-> TRUE]

ProbeKeyMayMatch(block_offset, key) ==
  /\ probe.live
  /\ probe' = [probe EXCEPT !.called = TRUE,
                            !.block_offset = block_offset,
                            !.key = key,
                            !.result = KeyMayMatch(probe.reader, block_offset, key)]
  /\ UNCHANGED <<mergeVars, scan, tableVars, readVars, arenaVars, build>>

ProbeStep == \E block_offset \in ProbeOffsets, key \in ProbeKeys :
               ProbeKeyMayMatch(block_offset, key)

\* ------------------------------------------------- Arena
kBlockSize == 4096

\* sizeof(char*) and sizeof(void*) of the build.
sizeof_pointer == 8

\* align of AllocateAligned
align == IF sizeof_pointer > 8 THEN sizeof_pointer ELSE 8

\* new char[]: the heap hands out slabs at increasing addresses that are
\* multiples of align; address 0 is nullptr.
NewChars(a) == ((a.heap_top + align - 1) \div align) * align

\* The state after Arena's constructor, on an untouched heap.
NewArena ==
  [live |-> TRUE, alloc_ptr_ |-> 0, alloc_bytes_remaining_ |-> 0,
   blocks_ |-> << >>, memory_usage_ |-> 0, heap_top |-> align]

\* AllocateNewBlock with memory_usage_ raised by block_bytes only.
AllocateNewBlockNoPointer(a, block_bytes) ==
  [a |-> [a EXCEPT !.blocks_ = Append(@, [base |-> NewChars(a), size |-> block_bytes]),
                   !.memory_usage_ = @ + block_bytes,
                   !.heap_top = NewChars(a) + block_bytes],
   result |-> NewChars(a), slop |-> 0, fresh |-> FALSE]

\* The result of an allocation: the arena after it, the pointer returned, the
\* padding AllocateAligned skipped and whether a slab became the current one.
AllocateNewBlock(a, block_bytes) ==
  [a |-> [a EXCEPT !.blocks_ = Append(@, [base |-> NewChars(a), size |-> block_bytes]),
                   !.memory_usage_ = @ + block_bytes + sizeof_pointer,
                   !.heap_top = NewChars(a) + block_bytes],
   result |-> NewChars(a), slop |-> 0, fresh |-> FALSE]

\* AllocateFallback that gives private slabs above half a slab only.
AllocateFallbackHalfSlab(a, bytes) ==
  IF bytes > kBlockSize \div 2
  THEN AllocateNewBlock(a, bytes)
  ELSE LET Carve(nb) ==
             [a |-> [nb.a EXCEPT !.alloc_ptr_ = nb.result + bytes,
                                 !.alloc_bytes_remaining_ = kBlockSize - bytes],
              result |-> nb.result, slop |-> 0, fresh |-> TRUE]
       IN  Carve(AllocateNewBlock(a, kBlockSize))

\* AllocateFallback that leaves alloc_ptr_ at the start of the new slab.
AllocateFallbackNoAdvance(a, bytes) ==
  IF bytes > kBlockSize \div 4
  THEN AllocateNewBlock(a, bytes)
  ELSE LET Carve(nb) ==
             [a |-> [nb.a EXCEPT !.alloc_ptr_ = nb.result,
                                 !.alloc_bytes_remaining_ = kBlockSize - bytes],
              result |-> nb.result, slop |-> 0, fresh |-> TRUE]
       IN  Carve(AllocateNewBlock(a, kBlockSize))

AllocateFallback(a, bytes) ==
  IF bytes > kBlockSize \div 4
  THEN AllocateNewBlock(a, bytes)
  ELSE LET Carve(nb) ==
             [a |-> [nb.a EXCEPT !.alloc_ptr_ = nb.result + bytes,
                                 !.alloc_bytes_remaining_ = kBlockSize - bytes],
              result |-> nb.result, slop |-> 0, fresh |-> TRUE]
       IN  Carve(AllocateNewBlock(a, kBlockSize))

Allocate(a, bytes) ==
  IF bytes <= a.alloc_bytes_remaining_
  THEN [a |-> [a EXCEPT !.alloc_ptr_ = @ + bytes,
                        !.alloc_bytes_remaining_ = @ - bytes],
        result |-> a.alloc_ptr_, slop |-> 0, fresh |-> FALSE]
  ELSE AllocateFallback(a, bytes)

\* AllocateAligned with slop = current_mod.
AllocateAlignedSlopIsMod(a, bytes) ==
  LET Padded(slop) ==
        IF bytes + slop <= a.alloc_bytes_remaining_
        THEN [a |-> [a EXCEPT !.alloc_ptr_ = @ + bytes + slop,
                              !.alloc_bytes_remaining_ = @ - (bytes + slop)],
              result |-> a.alloc_ptr_ + slop, slop |-> slop, fresh |-> FALSE]
        ELSE AllocateFallback(a, bytes)
  IN  Padded(a.alloc_ptr_ % align)

AllocateAligned(a, bytes) ==
  LET Padded(slop) ==
        IF bytes + slop <= a.alloc_bytes_remaining_
        THEN [a |-> [a EXCEPT !.alloc_ptr_ = @ + bytes + slop,
                              !.alloc_bytes_remaining_ = @ - (bytes + slop)],
              result |-> a.alloc_ptr_ + slop, slop |-> slop, fresh |-> FALSE]
        ELSE AllocateFallback(a, bytes)
  IN  Padded(IF a.alloc_ptr_ % align = 0 THEN 0 ELSE align - (a.alloc_ptr_ % align))

\* MemoryUsage()
MemoryUsage(a) == a.memory_usage_

\* ------------------------------------------------- Arena: the calls
\* The sizes a caller asks for.
AllocSizes == {1, 5, 1024, 1025, 4090}

\* The allocation r of bytes bytes enters the history.
Returned(r, bytes, aligned) ==
  arena_hist' =
    [allocs |-> Append(arena_hist.allocs,
                       [p |-> r.result, bytes |-> bytes, aligned |-> aligned,
                        slop |-> r.slop]),
     current |-> IF r.fresh THEN Len(r.a.blocks_) ELSE arena_hist.current,
     failed_assert |-> arena_hist.failed_assert
                         \/ (aligned /\ r.result % align # 0)]

ArenaAllocate(bytes) ==
  /\ arena.live
  /\ Len(arena_hist.allocs) < MaxAllocs
  /\ arena' = Allocate(arena, bytes).a
  /\ Returned(Allocate(arena, bytes), bytes, FALSE)
  /\ UNCHANGED <<mergeVars, scan, tableVars, readVars, probe, build>>

ArenaAllocateAligned(bytes) ==
  /\ arena.live
  /\ Len(arena_hist.allocs) < MaxAllocs
  /\ arena' = AllocateAligned(arena, bytes).a
  /\ Returned(AllocateAligned(arena, bytes), bytes, TRUE)
  /\ UNCHANGED <<mergeVars, scan, tableVars, readVars, probe, build>>

ArenaStep ==
  \/ \E bytes \in AllocSizes : ArenaAllocate(bytes)
  \/ \E bytes \in AllocSizes : ArenaAllocateAligned(bytes)

NoHistory == [allocs |-> << >>, current |-> 0, failed_assert |-> FALSE]

\* BuildTable: the calls.
BuildKeys == {SortedSeq(S) : S \in SUBSET (1..MaxBuildKey)}

BuildConstructed ==
  \E keys \in BuildKeys, b \in (-MaxBuildKey)..MaxBuildKey,
     new_file, sync, close \in {"OK", "IOError"},
     read_back \in {"OK", "Corruption"}, failAt \in FailPoints :
    /\ b <= Len(keys) /\ -b <= Len(keys)
    /\ build = NewBuild(keys, b, new_file, failAt, sync, close, read_back)

BuildTableCall ==
  /\ build.live /\ ~build.done
  /\ \E succ \in {x \in 0..(MaxBuildKey + 1) :
                    \A i \in 1..Len(build.keys) : x >= build.keys[i]} :
       build' = BuildTable(build, succ)
  /\ UNCHANGED <<mergeVars, scan, tableVars, readVars, arenaVars, probe>>

ArenaConstructed == arena = NewArena /\ arena_hist = NoHistory

ArenaAbsent == arena = [NewArena EXCEPT !.live = FALSE] /\ arena_hist = NoHistory

ProbeAbsent == probe = [live |-> FALSE]

BuildAbsent == build = [live |-> FALSE]

AuxAbsent == ArenaAbsent /\ ProbeAbsent /\ BuildAbsent

\* ------------------------------------------------- specifications
ReaderAbsent == tab = NoTable /\ tl = NoTwoLevelIterator

MergeInit ==
  MergeConstructed(MaxKey, MaxChildren, FALSE) /\ TableAbsent /\ ReaderAbsent /\ AuxAbsent

SpecMerge == MergeInit /\ [][MergeStep]_vars

TableInit ==
  TableConstructed /\ MergeAbsent /\ scan = NoScan /\ ReaderAbsent /\ AuxAbsent

TableNext == TableStep \/ TableNewIterator \/ IterStep

SpecTable == TableInit /\ [][TableNext]_vars

\* A table builder whose caller may break the order of the keys.  Nothing
\* runs after a failed assert, and a run is followed up to the first key
\* that is out of order.
UnorderedStep ==
  \E key \in TableKeys, value \in ValueSizes, ndebug \in BOOLEAN :
    TableAddUnordered(key, value, 0, ndebug)

UnorderedNext ==
  \/ ~failed_assert /\ InOrder(added) /\ TableStep
  \/ ~failed_assert /\ InOrder(added) /\ UnorderedStep

SpecUnordered == TableInit /\ [][UnorderedNext]_vars

\* A table builder whose options are changed while it builds.
OptionsStep == \E options \in ChangedOptions : TableChangeOptions(options)

OptionsNext == TableStep \/ OptionsStep

SpecOptions == TableInit /\ [][OptionsNext]_vars

\* A table builder whose filter policy is changed while it builds:
\* ChangeOptions accepts options with another filter policy, or with none.
\* filter_block is as the constructor made it, so that Finish, when it
\* comes to the metaindex block with a filter block and no policy, calls
\* Name() through a null pointer: the program ends there (ret is "SIGSEGV")
\* or goes on with whatever name it read, which the Finish action writes.
PolicyOptions ==
  {[rep.options EXCEPT !.filter_policy = policy] :
     policy \in {"null", "TestHashFilter", "AlwaysMatch"}}

PolicyStep == \E options \in PolicyOptions : TableChangeOptions(options)

\* Finish as far as the filter block.
FinishedFilter == FinishFilter([Flush(Bundle(0)) EXCEPT !.rep.closed = TRUE]).s

DereferencesNull ==
  /\ rep.filter_block.live /\ rep.options.filter_policy = "null"
  /\ ok(FinishedFilter)

TableFinishNullPolicy ==
  /\ ~rep.closed
  /\ DereferencesNull
  /\ Unbundle(FinishedFilter)
  /\ ret' = "SIGSEGV"
  /\ rejected' = (rejected \/ rep.status # "OK")
  /\ UNCHANGED <<auxVars, mergeVars, readVars, scan, added>>

PolicyNext ==
  \/ ret # "SIGSEGV" /\ \E key \in TableKeys, value \in ValueSizes : TableAdd(key, value, 0)
  \/ ret # "SIGSEGV" /\ TableFlush(0)
  \/ ret # "SIGSEGV" /\ TableFinish(0)
  \/ ret # "SIGSEGV" /\ TableFinishNullPolicy
  \/ ret # "SIGSEGV" /\ PolicyStep

SpecPolicy == TableInit /\ [][PolicyNext]_vars

\* Iterators over children and tables that may report errors.
IterInit ==
  /\ \/ MergeConstructed(ErrMaxKey, ErrMaxChildren, TRUE) /\ TableAbsent /\ ReaderAbsent
     \/ MergeAbsent /\ scan = NoScan /\ DamagedTableOpened
  /\ AuxAbsent

IterNext_ == MergeStep \/ IterStep

SpecIter == IterInit /\ [][IterNext_]_vars

SkipInit ==
  MergeAbsent /\ scan = NoScan /\ SparseTableOpened(SkipMaxKey, FALSE) /\ AuxAbsent

SpecSkip == SkipInit /\ [][IterStep]_vars

\* A two-level iterator with the history of its data iterators, used until
\* it has obtained MaxObtained of them, and deleted at any time.
ResourceInit ==
  MergeAbsent /\ scan = NoScan /\ SparseTableOpened(ResourceMaxKey, TRUE) /\ AuxAbsent

ResourceNext ==
  \/ tl.obtained < MaxObtained /\ IterStep
  \/ IterDestroy

SpecResource == ResourceInit /\ [][ResourceNext]_vars

StatusInit == MergeFailingConstructed /\ TableAbsent /\ ReaderAbsent /\ AuxAbsent

SpecStatus == StatusInit /\ [][MergeStep]_vars

BuildInit ==
  BuildConstructed /\ MergeAbsent /\ scan = NoScan /\ TableAbsent /\ ReaderAbsent
  /\ ArenaAbsent /\ ProbeAbsent

SpecBuild == BuildInit /\ [][BuildTableCall]_vars

FilterInit ==
  /\ TableConstructed /\ rep.filter_block.live
  /\ MergeAbsent /\ scan = NoScan /\ ReaderAbsent /\ AuxAbsent

SpecFilter == FilterInit /\ [][FilterStep]_vars

ProbeInit ==
  /\ ProbeConstructed /\ ArenaAbsent /\ BuildAbsent
  /\ MergeAbsent /\ scan = NoScan /\ TableAbsent /\ ReaderAbsent

SpecProbe == ProbeInit /\ [][ProbeStep]_vars

ArenaInit ==
  /\ ArenaConstructed /\ ProbeAbsent /\ BuildAbsent
  /\ MergeAbsent /\ scan = NoScan /\ TableAbsent /\ ReaderAbsent

SpecArena == ArenaInit /\ [][ArenaStep]_vars

\* ------------------------------------------------- claims: merging iterator
AllEntries == {e \in (1..n_) \X (1..MaxKey + 1) : e[2] <= Len(kids[e[1]])}

NoRepeat(s) == \A i, j \in 1..Len(s) : i # j => s[i] # s[j]

\* e comes before f in the sorted merge: by key, equal keys by child index
\* (the order in which a forward scan yields equal keys).
MergeBefore(e, f) ==
  EntryKey(e) < EntryKey(f) \/ (EntryKey(e) = EntryKey(f) /\ e[1] < f[1])

\* C1: after SeekToFirst or Seek(t), Next until invalid visits every child
\* entry with key >= t exactly once in non-decreasing key order, and the
\* iterator is invalid right after the seek iff there is no such entry.
C1_ForwardScanIsMerge ==
  scan.kind = "fwd" =>
    LET out  == scan.out
        want == {e \in AllEntries : EntryKey(e) >= scan.target}
    IN  /\ NoRepeat(out)
        /\ \A i \in 1..(Len(out) - 1) : EntryKey(out[i]) <= EntryKey(out[i + 1])
        /\ Range(out) \subseteq want
        /\ Valid => out # << >> /\ out[Len(out)] = CurEntry(children_, current_)
        /\ ~Valid => Range(out) = want
        /\ scan.steps = 0 => (~Valid <=> want = {})

\* A finished forward scan from Seek(2) over children that share a key.
C1_Witness ==
  /\ scan.kind = "fwd" /\ scan.target = 2 /\ ~Valid /\ Len(scan.out) >= 3
  /\ \E i, j \in 1..Len(scan.out) :
       i # j /\ EntryKey(scan.out[i]) = EntryKey(scan.out[j])

\* C2: after SeekToLast, Prev until invalid visits every entry of every
\* child exactly once in non-increasing key order: the exact reverse of the
\* sorted merge.
C2_ReverseScanIsMerge ==
  scan.kind = "rev" =>
    LET out == scan.out
    IN  /\ NoRepeat(out)
        /\ \A i \in 1..(Len(out) - 1) : MergeBefore(out[i + 1], out[i])
        /\ Range(out) \subseteq AllEntries
        /\ Valid => out # << >> /\ out[Len(out)] = CurEntry(children_, current_)
        /\ ~Valid => Range(out) = AllEntries

\* A finished reverse scan over children that share a key.
C2_Witness ==
  /\ scan.kind = "rev" /\ ~Valid /\ Len(scan.out) >= 4
  /\ \E i, j \in 1..Len(scan.out) :
       i # j /\ EntryKey(scan.out[i]) = EntryKey(scan.out[j])

\* C3 as stated: after SeekToLast and any number of Prev calls that leave the
\* iterator on entry e, one Next puts it on the entry that follows e in the
\* sorted merge of all entries, and makes it invalid only if e is the last.
C3_NextLandsOnMergeSuccessor ==
  scan.kind = "revNext" =>
    LET e     == scan.out[Len(scan.out)]
        after == {f \in AllEntries : MergeBefore(e, f)}
    IN  IF after = {} THEN ~Valid
        ELSE /\ Valid
             /\ \A f \in after :
                  f = CurEntry(children_, current_)
                  \/ MergeBefore(CurEntry(children_, current_), f)

\* C3 amended: that Next puts the iterator on the smallest key strictly
\* greater than e's key (on the lowest child that holds it), skipping the
\* entries of other children whose key equals e's; it is invalid iff no key
\* is greater.  When no other child holds e's key this is e's successor.
C3_NextLandsOnNextGreaterKey ==
  scan.kind = "revNext" =>
    LET e       == scan.out[Len(scan.out)]
        greater == {f \in AllEntries : EntryKey(f) > EntryKey(e)}
        cur     == CurEntry(children_, current_)
    IN  /\ ~Valid <=> greater = {}
        /\ Valid => /\ cur \in greater
                    /\ \A f \in greater : f = cur \/ MergeBefore(cur, f)
        /\ direction_ = "kForward"

\* One Next after a reverse scan that stopped on a key another child also
\* holds, landing on a greater key.
C3_Witness ==
  /\ scan.kind = "revNext" /\ Valid /\ Len(scan.out) >= 2
  /\ \E f \in AllEntries :
       /\ f # scan.out[Len(scan.out)]
       /\ EntryKey(f) = EntryKey(scan.out[Len(scan.out)])

\* ------------------------------------------------- claims: errors in iterators
\* Where the merging iterator and the two-level iterator stand.
MergeCursor == <<current_, [i \in 1..n_ |-> children_[i].pos]>>
TLCursor == <<tl.index_iter_.pos, tl.data_iter_.held, tl.data_iter_.h, tl.data_iter_.pos>>

C16_StatusIsFirstChildError ==
  /\ MergeStatus = "OK" <=> \A i \in 1..n_ : children_[i].status = "OK"
  /\ \A i \in 1..n_ :
       (/\ children_[i].status # "OK"
        /\ \A j \in 1..(i - 1) : children_[j].status = "OK")
       => MergeStatus = children_[i].status

\* Two children have failed with different statuses, a child before them is
\* current, and the iterator moves in reverse.
C16_Witness ==
  /\ Valid /\ direction_ = "kReverse"
  /\ \E i, j \in 1..n_ :
       /\ current_ < i /\ i < j
       /\ children_[i].status # "OK" /\ children_[j].status # "OK"
       /\ children_[i].status # children_[j].status

\* The valid children, and those of them that hold the smallest and the
\* largest key.
ValidChildren == {i \in 1..n_ : ChildValid(children_[i])}
HoldMinimum ==
  {i \in ValidChildren :
     \A j \in ValidChildren : KeyOf(children_, i) <= KeyOf(children_, j)}
HoldMaximum ==
  {i \in ValidChildren :
     \A j \in ValidChildren : KeyOf(children_, i) >= KeyOf(children_, j)}

\* C17: the current child is determined by the children's positions and the
\* direction alone: moving forward it is the lowest-numbered of the valid
\* children that hold the smallest key, moving in reverse the
\* highest-numbered of those that hold the largest key, and there is no
\* current child iff no child is valid.
C17_TiesAreBrokenByIndex ==
  /\ Valid <=> ValidChildren # {}
  /\ (Valid /\ direction_ = "kForward")
       => current_ \in HoldMinimum /\ \A i \in HoldMinimum : current_ <= i
  /\ (Valid /\ direction_ = "kReverse")
       => current_ \in HoldMaximum /\ \A i \in HoldMaximum : current_ >= i

\* A tie in each direction: after a step of a scan several children hold
\* the key the iterator is on.
C17_Witness ==
  /\ Valid /\ scan.steps >= 1
  /\ \/ direction_ = "kForward" /\ Cardinality(HoldMinimum) >= 2
     \/ direction_ = "kReverse" /\ Cardinality(HoldMaximum) >= 2

\* ------------------------------------------------- claims: merging iterator positions
\* C22: the merging iterator is valid iff some child is valid; while it is
\* valid and moves forward every other valid child has a key >= key(), and
\* while it is valid and moves in reverse every other valid child has a
\* key <= key().
C22_PositionInvariant ==
  /\ Valid <=> \E i \in 1..n_ : ChildValid(children_[i])
  /\ Valid =>
       \A i \in 1..n_ :
         (i # current_ /\ ChildValid(children_[i])) =>
           /\ direction_ = "kForward"
                => KeyOf(children_, i) >= KeyOf(children_, current_)
           /\ direction_ = "kReverse"
                => KeyOf(children_, i) <= KeyOf(children_, current_)

\* Both directions with another valid child: a Next after a reverse scan and
\* a Prev after a forward scan have left the iterator valid.
C22_Witness ==
  /\ Valid
  /\ \E i \in 1..n_ : i # current_ /\ ChildValid(children_[i])
  /\ scan.kind \in {"revNext", "fwdPrev"}

\* All keys of all children that are smaller than k.
KeysBelow(k) == (UNION {Range(kids[i]) : i \in 1..n_}) \cap 1..(k - 1)

\* C23: a Prev on an iterator that is valid at key k and moves forward puts
\* every other child strictly before k (on its last entry if it has no
\* key >= k, invalid if it has no key < k) and leaves the iterator on the
\* largest key < k of all children, or invalid if there is none.
C23_PrevAfterForward ==
  [][(MergePrev /\ direction_ = "kForward") =>
       LET k == KeyOf(children_, current_)
       IN  /\ \A i \in 1..n_ :
                LET below == {p \in 1..Len(kids[i]) : kids[i][p] < k}
                IN  IF below = {} THEN ~ChildValid(children_'[i])
                    ELSE /\ ChildValid(children_'[i])
                         /\ kids[i][children_'[i].pos] < k
                         /\ (\A p \in 1..Len(kids[i]) : kids[i][p] < k)
                              => children_'[i].pos = Len(kids[i])
           /\ (current_' # 0) <=> KeysBelow(k) # {}
           /\ current_' # 0 =>
                /\ kids[current_'][children_'[current_'].pos] \in KeysBelow(k)
                /\ \A x \in KeysBelow(k) :
                     x <= kids[current_'][children_'[current_'].pos]]_vars

\* After a forward scan a Prev has left the iterator valid while another
\* child, which has no key >= the key the scan stood on, is on its last
\* entry.
C23_Witness ==
  /\ scan.kind = "fwdPrev" /\ Valid
  /\ \E i \in 1..n_ :
       /\ i # current_ /\ Len(kids[i]) > 0
       /\ children_[i].pos = Len(kids[i])
       /\ \A p \in 1..Len(kids[i]) : kids[i][p] < EntryKey(scan.out[Len(scan.out)])

\* ------------------------------------------------- claims: two-level iterator
DataFailed(t) == t.data_iter_.held /\ t.data_iter_.status # "OK"

\* C25 as stated: status() is the data iterator's status when that is not
\* OK, and the index iterator's status otherwise.
C25_DataThenIndex ==
  tl.live =>
    TLStatus(tl) = IF DataFailed(tl) THEN tl.data_iter_.status
                   ELSE tl.index_iter_.status

\* C25: status() is the index iterator's status when that is not OK (no
\* data iterator is held then); otherwise the data iterator's status when
\* one is held and its status is not OK; otherwise status_, the first error
\* saved from a data iterator that was replaced.
C25_StatusDelegation ==
  tl.live =>
    /\ tl.index_iter_.status # "OK"
         => TLStatus(tl) = tl.index_iter_.status /\ ~tl.data_iter_.held
    /\ (tl.index_iter_.status = "OK" /\ DataFailed(tl))
         => TLStatus(tl) = tl.data_iter_.status
    /\ (tl.index_iter_.status = "OK" /\ ~DataFailed(tl))
         => TLStatus(tl) = tl.status_

\* The iterator stands on an entry, neither the index iterator nor the data
\* iterator reports an error, and an error was saved from a block passed.
C25_Witness ==
  /\ tl.live /\ TLValid(tl)
  /\ tl.index_iter_.status = "OK" /\ tl.data_iter_.status = "OK"
  /\ tl.status_ # "OK"

\* The entries of the block the i-th index entry points to.
BlockOf(i) == BlockEntries(tab.index[i][2])

\* The index positions after i, and before i, of blocks that have entries.
NonEmptyAfter(i) == {j \in (i + 1)..Len(tab.index) : BlockOf(j) # << >>}
NonEmptyBefore(i) == {j \in 1..(i - 1) : BlockOf(j) # << >>}

\* The iterator stands on entry p of the block of index entry j.
StandsOn(t, j, p) ==
  /\ TLValid(t)
  /\ t.index_iter_.pos = j
  /\ t.data_iter_.h = tab.index[j][2]
  /\ t.data_iter_.pos = p

\* C24: over an index some of whose entries point to blocks without entries
\* or to blocks the block function cannot read, the two-level iterator is
\* always either valid on an entry of a block that has entries, or invalid
\* and holds no data iterator; Next from the last entry of block i lands on
\* the first entry of the nearest block after i that has entries, Prev from
\* the first entry of block i on the last entry of the nearest such block
\* before i, and either is invalid if there is no such block.
C24_EmptyBlocksAreSkipped ==
  /\ [](tl.live =>
          \/ /\ TLValid(tl)
             /\ tl.data_iter_.pos \in 1..Len(BlockEntries(tl.data_iter_.h))
          \/ ~TLValid(tl) /\ ~tl.data_iter_.held)
  /\ [][(IterNext /\ tl.data_iter_.pos = Len(BlockOf(tl.index_iter_.pos))) =>
          LET after == NonEmptyAfter(tl.index_iter_.pos)
          IN  IF after = {} THEN ~TLValid(tl')
              ELSE \E j \in after :
                     /\ \A x \in after : j <= x
                     /\ StandsOn(tl', j, 1)]_vars
  /\ [][(IterPrev /\ tl.data_iter_.pos = 1) =>
          LET before == NonEmptyBefore(tl.index_iter_.pos)
          IN  IF before = {} THEN ~TLValid(tl')
              ELSE \E j \in before :
                     /\ \A x \in before : j >= x
                     /\ StandsOn(tl', j, Len(BlockOf(j)))]_vars

\* A Next has crossed a block without entries and a block that cannot be
\* read and stands on the first entry of the block after them.
C24_Witness ==
  /\ tl.live /\ TLValid(tl) /\ scan.kind = "fwd" /\ scan.steps >= 1
  /\ tl.index_iter_.pos >= 4 /\ tl.data_iter_.pos = 1
  /\ Len(scan.out) = 2
  /\ \E i, j \in 2..(tl.index_iter_.pos - 1) :
       /\ tab.index[i][2][1] \in tab.empty
       /\ tab.index[j][2][1] \in tab.unreadable

\* The data iterators alive: obtained from the block function and not deleted.
Alive(t) == t.obtained - t.deleted

\* Every data iterator is deleted at most once, the one held (the only one
\* that is used) is alive and no other is, and once the two-level iterator is
\* deleted every data iterator it obtained has been deleted.
DataIteratorsAccounted ==
  /\ tl.deleted <= tl.obtained
  /\ Alive(tl) = IF tl.data_iter_.held THEN 1 ELSE 0
  /\ tl.destroyed => ~tl.data_iter_.held /\ tl.deleted = tl.obtained

\* C21 as stated: at no instant is more than one data iterator obtained from
\* the block function alive, and every one obtained is deleted exactly once.
C21_AtMostOneAlive ==
  tl.audit => tl.peak <= 1 /\ DataIteratorsAccounted

\* C21: between the operations at most one data iterator obtained from the
\* block function is alive, the one held; inside InitDataBlock the next one
\* is obtained before the one held is deleted, so two are alive at that
\* instant and never more; every one obtained is deleted exactly once, when
\* it is replaced, reset to null or when the two-level iterator is deleted.
C21_DataIteratorsDeletedOnce ==
  tl.audit => tl.peak <= 2 /\ DataIteratorsAccounted

\* The two-level iterator was deleted after it had moved from one block to
\* another, and later become invalid, so that data iterators were deleted at
\* a replacement, at a reset to null and at the end.
C21_Witness ==
  /\ tl.audit /\ tl.destroyed
  /\ tl.obtained >= 3 /\ tl.peak = 2
  /\ tl.deleted = tl.obtained

\* ------------------------------------------------- claims: BuildTable
\* The statuses of Finish, Sync, Close and the read-back, in call order.
BuildStages == <<build.finished, build.synced, build.closed, build.verified>>

Failed(st) == st \notin {"OK", "skipped"}

\* The input iterator was empty (or failed) at SeekToFirst.
BuildInputEmpty ==
  ~ChildValid(ChildSeekToFirst(build.keys, build.bad, [pos |-> 0, status |-> "OK"]))

\* The file is kept iff the status is OK and file_size > 0, and an empty
\* input creates no file and leaves file_size 0.
BuildKeepsOnlyGoodFiles ==
  /\ build.exists <=> (build.ret = "OK" /\ build.file_size > 0)
  /\ BuildInputEmpty => ~build.created /\ build.file_size = 0

\* C18 as stated: after BuildTable the file is kept iff the status is OK and
\* file_size > 0, an empty input creates no file, and whichever of Finish,
\* Sync, Close, the read-back and the input iterator reports a status that is
\* not OK, RemoveFile is called and that status is returned.
C18_EveryFailureIsReturned ==
  build.done =>
    /\ BuildKeepsOnlyGoodFiles
    /\ \A i \in 1..4 :
         Failed(BuildStages[i]) => build.removed /\ build.ret = BuildStages[i]
    /\ Failed(build.iter_status) => build.removed /\ build.ret = build.iter_status

\* C18: after BuildTable the file is kept iff the status is OK and
\* file_size > 0, and an empty input creates no file.  If NewWritableFile
\* fails its status is returned at once and RemoveFile is not called.
\* Otherwise, if Finish, Sync, Close, the read-back or the input iterator
\* reports a status that is not OK, RemoveFile is called and the status
\* returned is the input iterator's if that is not OK, else the one of
\* Finish, Sync, Close and the read-back that is not OK.
C18_FailedBuildRemovesFile ==
  build.done =>
    /\ BuildKeepsOnlyGoodFiles
    /\ (~BuildInputEmpty /\ build.new_file # "OK")
         => build.ret = build.new_file /\ ~build.removed /\ build.file_size = 0
    /\ Failed(build.iter_status) => build.removed /\ build.ret = build.iter_status
    /\ \A i \in 1..4 :
         Failed(BuildStages[i])
           => /\ build.removed
              /\ \A j \in 1..4 : j # i => ~Failed(BuildStages[j])
              /\ ~Failed(build.iter_status) => build.ret = BuildStages[i]

\* Finish failed on the file and the input iterator failed in another way:
\* the file is removed and the iterator's status is returned.
C18_Witness ==
  /\ build.live /\ build.done
  /\ Failed(build.finished) /\ Failed(build.iter_status)
  /\ build.finished # build.iter_status
  /\ build.removed /\ build.ret = build.iter_status

\* ------------------------------------------------- claims: misuse of the table builder
\* C19: when num_entries > 0 and Add is called on a builder whose status is
\* OK with a key that is not greater than the last added key, the builder's
\* status becomes InvalidArgument and num_entries, the data block and the
\* file are unchanged.
C19_UnorderedAddIsRejected ==
  [][(UnorderedStep /\ rep.status = "OK")
       => /\ rep'.status = "InvalidArgument"
          /\ rep'.num_entries = rep.num_entries
          /\ rep'.data_block = rep.data_block
          /\ file' = file]_vars

\* C20: ChangeOptions with another comparator returns InvalidArgument and
\* leaves the options and the index block's options as they were; with the
\* builder's comparator it returns OK and the options are the new ones; and
\* the index block's block_restart_interval is 1 whatever calls were made.
C20_ChangeOptions ==
  /\ [](rep.index_block_options.block_restart_interval = 1)
  /\ [][\A options \in ChangedOptions :
          TableChangeOptions(options)
            => IF options.comparator # rep.options.comparator
               THEN /\ ret' = "InvalidArgument"
                    /\ rep'.options = rep.options
                    /\ rep'.index_block_options = rep.index_block_options
               ELSE /\ ret' = "OK"
                    /\ rep'.options = options]_vars

\* Entries were added, the options were replaced by ones with another
\* restart interval, and a call with another comparator was then refused.
C20_Witness ==
  /\ ret = "InvalidArgument"
  /\ rep.num_entries > 0
  /\ rep.options.block_restart_interval = 32
  /\ rep.options.comparator = "leveldb.BytewiseComparator"

\* ------------------------------------------------- claims: arena
RECURSIVE SumOfBytes(_)
SumOfBytes(allocs) ==
  IF allocs = << >> THEN 0 ELSE Head(allocs).bytes + SumOfBytes(Tail(allocs))

RECURSIVE SumOfSlabs(_)
SumOfSlabs(blocks) ==
  IF blocks = << >> THEN 0
  ELSE Head(blocks).size + sizeof_pointer + SumOfSlabs(Tail(blocks))

\* C11: after any sequence of Allocate and AllocateAligned calls the sum of
\* the requested sizes is <= MemoryUsage(), MemoryUsage() is the sum over the
\* slabs obtained so far of slab size + size of one pointer, and
\* MemoryUsage() never decreases.
C11_ArenaAccounting ==
  [][/\ SumOfBytes(arena_hist'.allocs) <= MemoryUsage(arena')
     /\ MemoryUsage(arena') = SumOfSlabs(arena'.blocks_)
     /\ MemoryUsage(arena') >= MemoryUsage(arena)]_vars

\* Allocations from a shared slab and from a slab of their own.
C11_Witness ==
  /\ Len(arena_hist.allocs) >= 3
  /\ \E i, j \in 1..Len(arena.blocks_) :
       arena.blocks_[i].size = kBlockSize /\ arena.blocks_[j].size # kBlockSize

\* C12: the byte ranges [p, p+b) of any two allocations are disjoint and each
\* lies inside one slab; alloc_ptr_ + alloc_bytes_remaining_ is the end of
\* the current slab (before there is one, both are zero), and
\* alloc_bytes_remaining_ <= 4096.
C12_NoAlias ==
  LET allocs == arena_hist.allocs
  IN  /\ \A i, j \in 1..Len(allocs) :
           i < j => \/ allocs[i].p + allocs[i].bytes <= allocs[j].p
                    \/ allocs[j].p + allocs[j].bytes <= allocs[i].p
      /\ \A i \in 1..Len(allocs) :
           \E k \in 1..Len(arena.blocks_) :
             /\ arena.blocks_[k].base <= allocs[i].p
             /\ allocs[i].p + allocs[i].bytes
                  <= arena.blocks_[k].base + arena.blocks_[k].size
      /\ IF arena_hist.current = 0
         THEN arena.alloc_ptr_ = 0 /\ arena.alloc_bytes_remaining_ = 0
         ELSE arena.alloc_ptr_ + arena.alloc_bytes_remaining_
                = arena.blocks_[arena_hist.current].base
                    + arena.blocks_[arena_hist.current].size
      /\ arena.alloc_bytes_remaining_ <= 4096

\* Aligned and unaligned allocations, two of them in one slab, over two slabs
\* or more.
C12_Witness ==
  LET allocs == arena_hist.allocs
  IN  /\ Len(arena.blocks_) >= 2
      /\ \E i, j \in 1..Len(allocs) : allocs[i].aligned /\ ~allocs[j].aligned
      /\ \E i, j \in 1..Len(allocs) : \E k \in 1..Len(arena.blocks_) :
           /\ i # j
           /\ arena.blocks_[k].base <= allocs[i].p
           /\ allocs[i].p < allocs[j].p
           /\ allocs[j].p < arena.blocks_[k].base + arena.blocks_[k].size

\* C13: with every slab at a multiple of 8, every pointer AllocateAligned
\* returns is a multiple of 8 and its closing assertion never fails, also
\* after Allocate calls that leave alloc_ptr_ misaligned.
C13_AlignedPointers ==
  /\ ~arena_hist.failed_assert
  /\ \A i \in 1..Len(arena_hist.allocs) :
       arena_hist.allocs[i].aligned => arena_hist.allocs[i].p % 8 = 0

\* An AllocateAligned that skipped padding, and one that found alloc_ptr_
\* misaligned and took a slab.
C13_Witness ==
  LET allocs == arena_hist.allocs
  IN  /\ \E i \in 1..Len(allocs) : allocs[i].aligned /\ allocs[i].slop > 0
      /\ \E i \in 2..Len(allocs) :
           /\ allocs[i].aligned /\ allocs[i].slop = 0
           /\ (allocs[i - 1].p + allocs[i - 1].bytes) % 8 # 0
           /\ \E k \in 1..Len(arena.blocks_) : arena.blocks_[k].base = allocs[i].p

\* ------------------------------------------------- claims: filter block reader
\* The filter index of the last KeyMayMatch call and the range decoded for it.
ProbeIndex == probe.block_offset \div (2 ^ probe.reader.base_lg_)
ProbeStart ==
  DecodeFixed32(probe.reader.data, probe.reader.offset_ + ProbeIndex * 4)
ProbeLimit ==
  DecodeFixed32(probe.reader.data, probe.reader.offset_ + ProbeIndex * 4 + 4)

\* C14: KeyMayMatch returns true for every key whenever the filter index is
\* >= num (also for a reader of contents shorter than 5 bytes or with the
\* offset array past n-5), whenever the decoded start > limit, and whenever
\* the decoded limit lies past the start of the offset array.
C14_FailOpen ==
  (probe.live /\ probe.called) =>
    /\ ProbeIndex >= probe.reader.num_ => probe.result
    /\ ProbeIndex < probe.reader.num_ =>
         /\ ProbeStart > ProbeLimit => probe.result
         /\ ProbeLimit > probe.reader.offset_ => probe.result

\* The contents are what FilterBlockBuilder::Finish writes: the offset words
\* begin at 0, do not decrease and end at the start of the offset array.
WellFormed(reader) ==
  /\ reader.base_lg_ = kFilterBaseLg
  /\ Len(reader.data) = reader.offset_ + 4 * reader.num_ + 5
  /\ reader.num_ > 0 => DecodeFixed32(reader.data, reader.offset_) = 0
  /\ \A i \in 0..(reader.num_ - 1) :
       DecodeFixed32(reader.data, reader.offset_ + i * 4)
         <= DecodeFixed32(reader.data, reader.offset_ + i * 4 + 4)

\* C15: for a well-formed filter block and a filter index i < num, a decoded
\* range with start = limit makes KeyMayMatch return false for every key
\* whatever the policy answers for an empty filter; only with start < limit
\* is the answer that of FilterPolicy::KeyMayMatch.
C15_EmptyFilterMatchesNothing ==
  (/\ probe.live /\ probe.called /\ WellFormed(probe.reader)
   /\ ProbeIndex < probe.reader.num_) =>
    /\ ProbeStart = ProbeLimit => ~probe.result
    /\ ProbeStart < ProbeLimit =>
         probe.result = PolicyKeyMayMatch(probe.reader.policy_, probe.key,
                          SubSeq(probe.reader.data, ProbeStart + 1, ProbeLimit))

\* ------------------------------------------------- claims: tables
\* The table was finished with OK status.
FinishedOK == rep.closed /\ ret = "OK"

DataChunkIndexes == {i \in 1..Len(file) : file[i].kind = "data"}

\* The data blocks of the file, in write order.
IsData(c) == c.kind = "data"
DataChunks == SelectSeq(file, IsData)

ChunkOfKind(kind) == CHOOSE i \in 1..Len(file) : file[i].kind = kind

\* C4: for strictly increasing pairs added and finished with OK status, the
\* two-level iterator yields exactly the added pairs in order from
\* SeekToFirst with Next until invalid, and exactly the reverse from
\* SeekToLast with Prev until invalid.
C4_RoundTrip ==
  tl.live =>
    /\ (scan.kind = "fwd" /\ scan.target = 0) =>
         /\ Len(scan.out) <= Len(added)
         /\ \A i \in 1..Len(scan.out) : scan.out[i] = added[i]
         /\ TLValid(tl) => scan.out # << >> /\ scan.out[Len(scan.out)] = TLEntry(tl)
         /\ ~TLValid(tl) => scan.out = added
    /\ scan.kind = "rev" =>
         /\ Len(scan.out) <= Len(added)
         /\ \A i \in 1..Len(scan.out) : scan.out[i] = added[Len(added) + 1 - i]
         /\ TLValid(tl) => scan.out # << >> /\ scan.out[Len(scan.out)] = TLEntry(tl)
         /\ ~TLValid(tl) => Len(scan.out) = Len(added)

\* A finished forward scan of a table of three pairs in two or more blocks.
C4_Witness ==
  /\ tl.live /\ scan.kind = "fwd" /\ scan.target = 0 /\ ~TLValid(tl)
  /\ Len(scan.out) >= 3 /\ Cardinality(DataChunkIndexes) >= 2

\* C5: Seek(t) leaves the two-level iterator valid iff some added key is
\* >= t, and then on the smallest added key >= t with its value, also when t
\* lies between the last key of a data block and that block's separator.
C5_SeekLowerBound ==
  (tl.live /\ scan.kind = "fwd" /\ scan.steps = 0 /\ scan.target >= 1) =>
    LET ge == {i \in 1..Len(added) : added[i][1] >= scan.target}
    IN  /\ TLValid(tl) <=> ge # {}
        /\ TLValid(tl) =>
             TLEntry(tl) = added[CHOOSE i \in ge : \A j \in ge : i <= j]

\* Seek(t) with t above every key of the block the index sends it to.
C5_Witness ==
  /\ tl.live /\ scan.kind = "fwd" /\ scan.steps = 0 /\ scan.target >= 1
  /\ TLValid(tl)
  /\ \E i \in 1..Len(tab.index) :
       /\ tab.index[i][1] >= scan.target
       /\ \A j \in 1..(i - 1) : tab.index[j][1] < scan.target
       /\ \A e \in Range(BlockEntries(tab.index[i][2])) : e[1] < scan.target

\* C6: given a policy without false negatives, KeyMayMatch(o, k) on the
\* finished filter block is true for every key k of a data block that starts
\* at offset o; a false answer means k is in no data block that starts in
\* the 2 KiB region of o.
C6_FilterSound ==
  (FinishedOK /\ rep.filter_block.live) =>
    LET reader == FilterBlockReader(rep.options.filter_policy, file[ChunkOfKind("filter")].body)
    IN  /\ \A i \in DataChunkIndexes : \A e \in Range(file[i].body) :
             KeyMayMatch(reader, ChunkOffset(file, i), e[1])
        /\ \A i \in DataChunkIndexes : \A k \in TableKeys :
             ~KeyMayMatch(reader, ChunkOffset(file, i), k) =>
               \A j \in DataChunkIndexes :
                 (ChunkOffset(file, j) \div kFilterBase
                    = ChunkOffset(file, i) \div kFilterBase)
                 => \A e \in Range(file[j].body) : e[1] # k

\* A finished filter block with two data blocks that start in one region, a
\* data block longer than a region and an empty filter.
C6_Witness ==
  /\ FinishedOK /\ rep.filter_block.live
  /\ \E i, j \in DataChunkIndexes :
       /\ i # j
       /\ ChunkOffset(file, j) \div kFilterBase = ChunkOffset(file, i) \div kFilterBase
  /\ \E i \in DataChunkIndexes : file[i].size > kFilterBase
  /\ LET reader == FilterBlockReader(rep.options.filter_policy, file[ChunkOfKind("filter")].body)
     IN  \E x \in 0..(reader.num_ - 1) :
           DecodeFixed32(reader.data, reader.offset_ + x * 4)
             = DecodeFixed32(reader.data, reader.offset_ + x * 4 + 4)

\* C7: in a table finished with OK status the i-th index key is >= every key
\* of data block i and < every key of data block i+1, so the index keys are
\* strictly increasing.
C7_IndexSeparates ==
  FinishedOK =>
    LET index == file[ChunkOfKind("index")].body
    IN  /\ Len(index) = Len(DataChunks)
        /\ \A i \in 1..Len(index) :
             /\ \A e \in Range(DataChunks[i].body) : e[1] <= index[i][1]
             /\ i < Len(index) =>
                  \A e \in Range(DataChunks[i + 1].body) : e[1] > index[i][1]
        /\ \A i \in 1..(Len(index) - 1) : index[i][1] < index[i + 1][1]

\* A finished table of two or more data blocks with a separator that is no
\* key of the table.
C7_Witness ==
  /\ FinishedOK /\ Len(DataChunks) >= 2
  /\ LET index == file[ChunkOfKind("index")].body
     IN  \E i \in 1..(Len(index) - 1) :
           \A j \in 1..Len(added) : added[j][1] # index[i][1]

\* C8: once status() is not OK it stays what it is; a later Add or Flush
\* leaves num_entries, the file offset, the data block, the index block and
\* pending_index_entry as they are and appends nothing, and a later Finish
\* appends nothing and returns that status.
C8_ErrorIsSticky ==
  [][rep.status # "OK" =>
       /\ rep'.status = rep.status
       /\ rep'.num_entries = rep.num_entries
       /\ rep'.offset = rep.offset
       /\ rep'.data_block = rep.data_block
       /\ rep'.index_block = rep.index_block
       /\ rep'.pending_index_entry = rep.pending_index_entry
       /\ file' = file
       /\ (~rep.closed /\ rep'.closed /\ ret' # "void") => ret' = rep.status]_vars

\* A Finish called on a builder whose status was already not OK.
C8_Witness ==
  /\ rejected /\ rep.closed /\ ret = "IOError" /\ rep.num_entries >= 1

\* C10: after a Finish that returns OK the file holds, in order, the data
\* blocks, the filter block (iff a filter policy is set), the metaindex
\* block, the index block, each followed by its 5-byte trailer, and last the
\* 48-byte footer, whose two handles are those of the metaindex and index
\* blocks just written.
KindsWritten == [i \in 1..Len(file) |-> file[i].kind]

HandleOfChunk(i) == [offset |-> ChunkOffset(file, i), size |-> file[i].size]

C10_WriteOrder ==
  FinishedOK =>
    /\ KindsWritten =
         Flatten([i \in 1..Len(DataChunks) |-> <<"data", "trailer">>])
         \o (IF rep.options.filter_policy # "null"
             THEN <<"filter", "trailer">> ELSE << >>)
         \o <<"metaindex", "trailer", "index", "trailer", "footer">>
    /\ \A i \in 1..Len(file) :
         /\ file[i].kind = "trailer" => file[i].size = kBlockTrailerSize
         /\ file[i].kind = "footer" => file[i].size = kFooterEncodedLength
    /\ LET footer == file[Len(file)].body
       IN  /\ footer.metaindex_handle = HandleOfChunk(ChunkOfKind("metaindex"))
           /\ footer.index_handle = HandleOfChunk(ChunkOfKind("index"))

\* A finished table with a filter block and two data blocks.
C10_Witness ==
  /\ FinishedOK /\ rep.options.filter_policy # "null" /\ Len(DataChunks) >= 2

\* ------------------------------------------------- claims: the table builder's bookkeeping
\* Finish has been called (Abandon and the other calls return nothing).
FinishCalled == rep.closed /\ ret # "void"

\* C26 as stated: in every state between calls pending_index_entry is true
\* iff the data block is empty and a data block has been written, and no
\* assertion has failed.
C26_PendingIffEmptyAndWritten ==
  /\ rep.pending_index_entry
       <=> (BlockEmpty(rep.data_block) /\ Len(DataChunks) >= 1)
  /\ ~failed_assert

\* C26: in every state between calls pending_index_entry implies that the
\* data block is empty and a data block has been written, so that the
\* assertions in Add and Flush never fail; the converse holds while the
\* status is OK and Finish has not been called (Finish emits the last index
\* entry and clears the flag, and a block whose write fails leaves it clear).
C26_PendingOnlyWhenEmpty ==
  /\ rep.pending_index_entry
       => (BlockEmpty(rep.data_block) /\ Len(DataChunks) >= 1)
  /\ (rep.status = "OK" /\ ~FinishCalled)
       => ((BlockEmpty(rep.data_block) /\ Len(DataChunks) >= 1)
             => rep.pending_index_entry)
  /\ ~failed_assert

\* A second data block has been written and its index entry is pending.
C26_Witness ==
  /\ rep.pending_index_entry /\ rep.status = "OK" /\ ~rep.closed
  /\ Len(DataChunks) >= 2

\* The position in the file of the i-th data block.
NthData(i) ==
  CHOOSE j \in DataChunkIndexes :
    Cardinality({x \in DataChunkIndexes : x <= j}) = i

\* entries are index entries for the first Len(entries) data blocks, in write
\* order: the value of the i-th is the encoded handle of the i-th block.
IndexesDataBlocks(entries) ==
  \A i \in 1..Len(entries) :
    /\ i <= Len(DataChunks)
    /\ entries[i][2] = EncodeTo(HandleOfChunk(NthData(i)))

\* C27: while the status is OK and Finish has not been called the index
\* block has one entry per data block written, less one if
\* pending_index_entry is set; after a Finish that returns OK the index block
\* in the file has exactly one entry per data block, in write order, the
\* value of the i-th being the encoded handle of the i-th data block, and the
\* key of the last is what FindShortSuccessor made of the last added key.
C27_IndexLagsOneBlock ==
  /\ (rep.status = "OK" /\ ~FinishCalled) =>
       /\ Len(rep.index_block.entries)
            = Len(DataChunks) - (IF rep.pending_index_entry THEN 1 ELSE 0)
       /\ IndexesDataBlocks(rep.index_block.entries)
  /\ FinishedOK =>
       /\ Len(IndexOf(file)) = Len(DataChunks)
       /\ IndexesDataBlocks(IndexOf(file))
       /\ Len(added) > 0 =>
            /\ IndexOf(file)[Len(IndexOf(file))][1] = rep.last_key
            /\ rep.last_key \in Successors(added[Len(added)][1])

\* A table of several data blocks finished with OK status.
C27_Witness ==
  /\ FinishedOK /\ Len(DataChunks) >= 2
  /\ Len(IndexOf(file)) = Len(DataChunks)

\* The chunks of the file that are blocks, in write order.
BlockChunkIndexes ==
  {i \in 1..Len(file) : file[i].kind \in {"data", "filter", "metaindex", "index"}}

\* The handles the builder has recorded: those in the index block being
\* built or written, the pending one, the filter block's in the metaindex
\* block and the two of the footer.
RecordedHandles ==
  {rep.index_block.entries[i][2] : i \in 1..Len(rep.index_block.entries)}
  \cup (IF rep.pending_index_entry THEN {EncodeTo(rep.pending_handle)} ELSE {})
  \cup (IF FinishedOK
        THEN {IndexOf(file)[i][2] : i \in 1..Len(IndexOf(file))}
             \cup {file[ChunkOfKind("metaindex")].body[i][2] :
                     i \in 1..Len(file[ChunkOfKind("metaindex")].body)}
             \cup {EncodeTo(file[Len(file)].body.metaindex_handle),
                   EncodeTo(file[Len(file)].body.index_handle)}
        ELSE {})

\* C28: while the status is OK every block in the file is followed by its
\* 5-byte trailer, the first block starts at offset 0 and each next one at
\* offset + size + 5 of the one before; every handle the builder has
\* recorded is the {offset, size} of a block in the file, after a Finish
\* that returns OK of every block; and FileSize() is the number of bytes
\* appended, the 48 bytes of the footer included.
C28_HandlesTileTheFile ==
  rep.status = "OK" =>
    /\ \A i \in BlockChunkIndexes :
         /\ i < Len(file) /\ file[i + 1].kind = "trailer"
         /\ file[i + 1].size = kBlockTrailerSize
         /\ HandleOfChunk(i).offset =
              IF i = 1 THEN 0
              ELSE HandleOfChunk(i - 2).offset + HandleOfChunk(i - 2).size
                     + kBlockTrailerSize
         /\ i > 1 => (i - 2) \in BlockChunkIndexes
    /\ \A h \in RecordedHandles :
         \E i \in BlockChunkIndexes : h = EncodeTo(HandleOfChunk(i))
    /\ FinishedOK =>
         \A i \in BlockChunkIndexes : EncodeTo(HandleOfChunk(i)) \in RecordedHandles
    /\ rep.offset = SumSizes(file, Len(file))
    /\ FinishedOK =>
         /\ file[Len(file)].kind = "footer"
         /\ rep.offset = SumSizes(file, Len(file) - 1) + kFooterEncodedLength

\* A table with a filter block and several data blocks finished with OK
\* status.
C28_Witness ==
  /\ FinishedOK /\ Len(DataChunks) >= 2
  /\ rep.options.filter_policy # "null"
  /\ rep.offset > kFooterEncodedLength

\* The entries of the data blocks written, in order.
WrittenEntries == Flatten([i \in 1..Len(DataChunks) |-> DataChunks[i].body])

\* The data block's size estimate is below block_size, or the block is empty.
BelowThreshold(r) ==
  \/ BlockEmpty(r.data_block)
  \/ CurrentSizeEstimate(r.data_block, r.options.block_restart_interval)
       < r.options.block_size

\* C29: between calls, while the status is OK, the data block is empty or
\* its size estimate is below block_size; a call writes at most one data
\* block, and writes one only if it is an Add that brings the estimate to
\* block_size or a Flush or Finish on a data block that has entries; no
\* data block in the file is empty; and the entries of the data blocks
\* written followed by those of the data block are the entries added, each
\* whole and once.
C29_FlushThreshold ==
  /\ [](rep.status = "OK" =>
          /\ BelowThreshold(rep)
          /\ WrittenEntries \o rep.data_block.entries = added)
  /\ [](\A i \in 1..Len(DataChunks) : DataChunks[i].body # << >>)
  /\ [][LET e == added'[Len(added')]
            full == BlockAdd(rep.data_block, e[1], kKeyBytes, e[2], e[2])
            written == Len(DataChunks') = Len(DataChunks) + 1
            last == DataChunks'[Len(DataChunks')].body
        IN  /\ Len(DataChunks') <= Len(DataChunks) + 1
            /\ written =>
                 \/ /\ Len(added') = Len(added) + 1
                    /\ CurrentSizeEstimate(full, rep.options.block_restart_interval)
                         >= rep.options.block_size
                    /\ last = full.entries
                 \/ /\ added' = added
                    /\ ~BlockEmpty(rep.data_block)
                    /\ last = rep.data_block.entries
            /\ (Len(added') = Len(added) + 1 /\ rep'.status = "OK"
                  /\ CurrentSizeEstimate(full, rep.options.block_restart_interval)
                       >= rep.options.block_size) => written
            /\ ((\E failAt \in FailPoints : TableFlush(failAt) \/ TableFinish(failAt))
                  /\ rep.status = "OK" /\ rep'.status = "OK"
                  /\ ~BlockEmpty(rep.data_block)) => written]_vars

\* An Add has filled the data block to block_size and flushed it, after an
\* Add that had left it below.
C29_Witness ==
  /\ rep.status = "OK" /\ ~rep.closed
  /\ BlockEmpty(rep.data_block) /\ rep.pending_index_entry
  /\ Len(DataChunks) >= 1
  /\ Len(DataChunks[Len(DataChunks)].body) >= 2
  /\ rep.options.block_size = 4096

\* ------------------------------------------------- claims: the filter block builder
\* The i-th filter of a builder: the bytes of result_ from its offset to the
\* next filter's, or to the end.
FilterOf(fb, i) ==
  LET from == fb.filter_offsets_[i]
      to   == IF i < Len(fb.filter_offsets_)
              THEN fb.filter_offsets_[i + 1] ELSE Len(fb.result_)
  IN  SubSeq(fb.result_, from + 1, to)

\* C30: over StartBlock calls with non-decreasing offsets interleaved with
\* AddKey, after StartBlock(offset) the number of filters emitted is
\* offset >> 11 and the assertion of StartBlock has not failed; a StartBlock
\* that emits filters puts the keys added since the last emission into the
\* first of them, leaves every further one empty and the earlier ones as
\* they were, and one that emits none leaves the builder as it is.
C30_StartBlockEmits ==
  /\ [](/\ Len(rep.filter_block.filter_offsets_) = rep.offset \div kFilterBase
        /\ ~failed_assert)
  /\ [][(\E block_offset \in BlockStarts : FilterStartBlock(block_offset)) =>
          LET fb == rep.filter_block
              n  == Len(fb.filter_offsets_)
              m  == Len(fb.filter_offsets_')
          IN  /\ m = rep.offset' \div kFilterBase
              /\ m >= n
              /\ m = n => fb' = fb
              /\ m > n =>
                   /\ FilterOf(fb', n + 1) = CreateFilter(fb.keys_)
                   /\ \A i \in (n + 2)..m : FilterOf(fb', i) = << >>
                   /\ \A i \in 1..n : FilterOf(fb', i) = FilterOf(fb, i)
                   /\ fb.keys_' = << >>]_vars

\* A builder whose StartBlock calls have emitted a filter with keys, empty
\* filters after it, and then a filter with keys again.
C30_Witness ==
  LET fb == rep.filter_block
  IN  /\ Len(fb.filter_offsets_) >= 4
      /\ FilterOf(fb, 1) # << >>
      /\ FilterOf(fb, 2) = << >>
      /\ FilterOf(fb, Len(fb.filter_offsets_) - 1) # << >>
      /\ FilterOf(fb, Len(fb.filter_offsets_)) = << >>
      /\ ~failed_assert

\* ------------------------------------------------- claims: the builder's use of the filter block
\* calls is a prefix of (StartBlock AddKey*)* Finish.
FilterProtocol(calls) ==
  \A i \in 1..Len(calls) :
    /\ calls[i][1] \in {"StartBlock", "AddKey", "Finish"}
    /\ calls[i][1] = "AddKey" => i > 1
    /\ calls[i][1] = "Finish" => i = Len(calls)

\* The offsets of the StartBlock calls in calls never decrease.
StartsNonDecreasing(calls) ==
  \A i, j \in 1..Len(calls) :
    (i < j /\ calls[i][1] = "StartBlock" /\ calls[j][1] = "StartBlock")
      => calls[i][2] <= calls[j][2]

\* The number of Finish calls in calls.
FinishCalls(calls) == Cardinality({i \in 1..Len(calls) : calls[i][1] = "Finish"})

\* C31: the calls the table builder has made on its filter block are a
\* prefix of (StartBlock AddKey*)* Finish, the offsets passed to StartBlock
\* never decrease, Finish is called at most once, and only a call of
\* TableBuilder::Finish adds a Finish to them.
C31_FilterProtocol ==
  /\ [](/\ FilterProtocol(rep.filter_block.calls_)
        /\ StartsNonDecreasing(rep.filter_block.calls_)
        /\ FinishCalls(rep.filter_block.calls_) <= 1)
  /\ [][FinishCalls(rep.filter_block.calls_') > FinishCalls(rep.filter_block.calls_)
          => \E failAt \in FailPoints : TableFinish(failAt)]_vars

\* A table with a filter block finished after two blocks had been started
\* at offsets past 0 and keys added to each.
C31_Witness ==
  LET calls == rep.filter_block.calls_
  IN  /\ Len(calls) >= 6
      /\ calls[Len(calls)] = <<"Finish">>
      /\ \E i, j \in 2..Len(calls) :
           /\ i + 1 < j
           /\ calls[i][1] = "StartBlock" /\ calls[i][2] > 0
           /\ calls[i + 1][1] = "AddKey"
           /\ calls[j][1] = "StartBlock" /\ calls[j][2] > calls[i][2]

\* ------------------------------------------------- claims: the arena's slabs
\* The allocation the step has just returned.
LastAlloc == arena_hist'.allocs[Len(arena_hist'.allocs)]

\* The step has carved its allocation from the current slab.
CarvedFromCurrent ==
  /\ arena'.blocks_ = arena.blocks_
  /\ arena_hist'.current = arena_hist.current
  /\ LastAlloc.p = arena.alloc_ptr_ + LastAlloc.slop
  /\ arena'.alloc_ptr_ = LastAlloc.p + LastAlloc.bytes
  /\ arena'.alloc_bytes_remaining_
       = arena.alloc_bytes_remaining_ - (LastAlloc.bytes + LastAlloc.slop)
  /\ arena'.alloc_bytes_remaining_ >= 0

\* The step has taken a slab of size bytes and returned its start.
TookSlab(size) ==
  /\ Len(arena'.blocks_) = Len(arena.blocks_) + 1
  /\ SubSeq(arena'.blocks_, 1, Len(arena.blocks_)) = arena.blocks_
  /\ arena'.blocks_[Len(arena'.blocks_)].size = size
  /\ arena'.blocks_[Len(arena'.blocks_)].base = LastAlloc.p

\* The step has carved its allocation from a fresh slab of kBlockSize bytes
\* that has become the current one.
CarvedFromFresh ==
  /\ TookSlab(kBlockSize)
  /\ arena_hist'.current = Len(arena'.blocks_)
  /\ arena'.alloc_ptr_ = LastAlloc.p + LastAlloc.bytes
  /\ arena'.alloc_bytes_remaining_ = kBlockSize - LastAlloc.bytes

\* The step has given its allocation a slab of its own and left the current
\* slab as it was.
PrivateSlab ==
  /\ TookSlab(LastAlloc.bytes)
  /\ arena_hist'.current = arena_hist.current
  /\ arena'.alloc_ptr_ = arena.alloc_ptr_
  /\ arena'.alloc_bytes_remaining_ = arena.alloc_bytes_remaining_

\* The allocation of the step, with the padding its alignment needs, fits
\* in what remains of the current slab.
FitsCurrent ==
  LET mod == arena.alloc_ptr_ % align
      needed == LastAlloc.bytes
                  + (IF LastAlloc.aligned /\ mod # 0 THEN align - mod ELSE 0)
  IN  needed <= arena.alloc_bytes_remaining_

\* C32 as stated: every allocation of at most kBlockSize / 4 bytes is carved
\* from the current slab or from a fresh slab of kBlockSize bytes that
\* becomes current, and every larger one gets a private slab of its size
\* and leaves alloc_ptr_ and alloc_bytes_remaining_ unchanged.
C32_LargeAlwaysPrivate ==
  [][Len(arena_hist'.allocs) > Len(arena_hist.allocs) =>
       /\ LastAlloc.bytes <= kBlockSize \div 4
            => (CarvedFromCurrent \/ CarvedFromFresh)
       /\ LastAlloc.bytes > kBlockSize \div 4 => PrivateSlab]_vars

\* C32: an allocation that fits in what remains of the current slab is
\* carved from it, whatever its size; one that does not fit is carved from
\* a fresh slab of kBlockSize bytes that becomes current if it is of at most
\* kBlockSize / 4 bytes, and otherwise gets a private slab of exactly its
\* size, alloc_ptr_ and alloc_bytes_remaining_ staying as they were.
C32_SlabPolicy ==
  [][Len(arena_hist'.allocs) > Len(arena_hist.allocs) =>
       /\ FitsCurrent => CarvedFromCurrent
       /\ (~FitsCurrent /\ LastAlloc.bytes <= kBlockSize \div 4) => CarvedFromFresh
       /\ (~FitsCurrent /\ LastAlloc.bytes > kBlockSize \div 4) => PrivateSlab]_vars

\* An arena that has carved an allocation of more than kBlockSize / 4 bytes
\* from inside its current slab and given another one a private slab.
C32_Witness ==
  LET allocs == arena_hist.allocs
      IsBase(q) == \E k \in 1..Len(arena.blocks_) : arena.blocks_[k].base = q
  IN  \E i, j \in 1..Len(allocs) :
        /\ allocs[i].bytes > kBlockSize \div 4 /\ ~IsBase(allocs[i].p)
        /\ allocs[j].bytes > kBlockSize \div 4
        /\ \E k \in 1..Len(arena.blocks_) :
             /\ arena.blocks_[k].base = allocs[j].p
             /\ arena.blocks_[k].size = allocs[j].bytes
             /\ arena.blocks_[k].size # kBlockSize

\* ------------------------------------------------- claims: errors of discarded data blocks
\* C33: once a data iterator whose status is not OK has been replaced or
\* dropped, status() of the two-level iterator is not OK in every later
\* state, and the status saved is that of the first such iterator: later
\* ones do not overwrite it.
C33_FirstErrorRetained ==
  (tl.audit /\ tl.live /\ tl.dropped # "OK") =>
    /\ TLStatus(tl) # "OK"
    /\ tl.status_ = tl.dropped

\* Over a table of two blocks, the first failing with an IOError and the
\* second with a Corruption, both data iterators have been dropped in that
\* order and status() answers the IOError.
C33_Witness ==
  /\ tl.audit /\ tl.live /\ ~tl.data_iter_.held
  /\ Len(tab.index) = 2
  /\ tab.index[1][2][1] \in tab.ioerror
  /\ tab.index[2][2][1] \in tab.unreadable \ tab.ioerror
  /\ tl.obtained = 2 /\ tl.deleted = 2
  /\ tl.dropped = "IOError" /\ TLStatus(tl) = "IOError"

\* ------------------------------------------------- claims: the builder's filter policy
\* C34: in every state reachable through the constructor, ChangeOptions,
\* Add, Flush and Finish there is a filter block builder iff
\* options.filter_policy is not null, and then options.filter_policy is the
\* policy the filter block builder was constructed with; the name written
\* under "filter.<Name>" in the metaindex block is the name of the policy
\* that built the filters, and Finish does not dereference a null policy.
C34_FilterPolicyConsistent ==
  /\ rep.filter_block.live <=> rep.options.filter_policy # "null"
  /\ rep.filter_block.live => rep.options.filter_policy = rep.filter_block.policy_
  /\ (rep.filter_block.live /\ \E i \in 1..Len(file) : file[i].kind = "metaindex") =>
       file[ChunkOfKind("metaindex")].body[1][1]
         = <<"filter.", rep.filter_block.policy_>>
  /\ ret # "SIGSEGV"

\* ------------------------------------------------- claims: the handle of the data block
\* C35: after every operation of the two-level iterator, if a data iterator
\* is held then the index iterator is valid and data_block_handle_ is the
\* value of its entry; and the block function has been called only with the
\* index iterator valid and with no data iterator held or the value of the
\* index entry other than data_block_handle_.
C35_HandleInvariant ==
  (tl.audit /\ tl.live) =>
    /\ tl.data_iter_.held =>
         /\ IndexValid(tl)
         /\ tl.data_block_handle_ = tab.index[tl.index_iter_.pos][2]
    /\ ~tl.reread

\* The iterator has moved from one block to another, and an operation has
\* then found the block of its index entry open and kept the data iterator.
C35_Witness ==
  /\ tl.audit /\ tl.live /\ tl.kept
  /\ tl.obtained >= 2
  /\ tl.data_iter_.held /\ IndexValid(tl)
  /\ tl.data_block_handle_ = tab.index[tl.index_iter_.pos][2]

====
